---------------------------- MODULE Spec2Model ----------------------------
(***************************************************************************)
(* Model of claude-devtools' context infrastructure:                       *)
(*   - SshFileSystemProvider (retry / error classification over SFTP),     *)
(*   - contextStorage (IndexedDB snapshot store with TTL and version),     *)
(*   - contextSlice (switchContext, validateSnapshot, captureSnapshot).    *)
(* Three specifications share the variables:                               *)
(*   SpecFs        the remote provider's operations,                       *)
(*   Spec          context switching over the snapshot store,              *)
(*   SpecValidate  validateSnapshot as a function of bounded inputs.       *)
(***************************************************************************)
EXTENDS Integers, Sequences, FiniteSets, TLC

VARIABLES
    \* ---- SshFileSystemProvider: one logical operation in progress ----
    fsOp,          \* "none" | "readFile" | "stat" | "readdir" | "exists"
    fsPc,          \* "idle" | "call" | "sleep" | "stream" | "tick" | "done"
    attempt,       \* loop variable `attempt` of the retry loop
    replies,       \* what the SFTP channel answered on each attempt so far
    sleeps,        \* the durations passed to sleep(), in order
    fsOutcome,     \* how the operation ended for its caller
    fsValue,       \* what it returned: the stat result, the directory entries
    reader,        \* readClaudeMdFile on the provider: its step and its result
    \* ---- renderer store (contextSlice + workspace fields) ----
    activeContextId,
    isContextSwitching,
    targetContextId,
    ws,            \* the workspace fields captured in / restored from snapshots
    \* ---- main process, IndexedDB, clock ----
    mainActive,    \* context the main process registry is serving
    idb,           \* key -> stored record
    now,           \* Date.now()
    \* ---- switchContext invocations in flight ----
    procs,
    idbQueue,      \* IndexedDB requests issued and not yet executed (in order)
    lastCall,      \* the calls of switchContext so far: their number, the last target
    lastLoad,      \* the most recent return of loadSnapshot
    lastEnd,       \* how the most recent switchContext invocation ended
    \* ---- validateSnapshot as a function ----
    vIn,           \* [snapshot, freshProjects, freshRepoGroups]
    vOut,          \* result, once computed
    \* ---- main process: context registry and SSH connection ----
    regContexts,   \* ServiceContextRegistry: context id -> the context registered
    regActiveId,   \* ServiceContextRegistry: the active context id
    ctxLife,       \* context id -> lifecycle stage of each context created with it
    connState,     \* host -> connection state
    flow,          \* the SSH_CONNECT / SSH_DISCONNECT handler running, its step
    notified,      \* calls of onContextSwitched: their number, the last argument
    lastDestroy,   \* the most recent destroyContext call and whether it was carried out
    ops,           \* requests made so far
    \* ---- contextStorage called directly: saveSnapshot, cleanupExpired ----
    saves,         \* the saveSnapshot calls so far: [ctx, snapshot, at]
    settled,       \* how the set() of each of them settled, in order
    sweep,         \* the cleanupExpired run: its step, the keys left, its `now`
    loads          \* the loadSnapshot calls so far: the context ids

fsVars == <<fsOp, fsPc, attempt, replies, sleeps, fsOutcome, fsValue, reader>>
storeVars == <<activeContextId, isContextSwitching, targetContextId, ws>>
envVars == <<mainActive, idb, now>>
swVars == <<storeVars, envVars, procs, idbQueue, lastCall, lastLoad, lastEnd>>
valVars == <<vIn, vOut>>
regVars == <<regContexts, regActiveId, ctxLife, connState, flow, notified,
             lastDestroy, ops>>
storVars == <<saves, settled, sweep, loads>>
vars == <<fsVars, swVars, valVars, regVars, storVars>>

None == "none"

(***************************************************************************)
(* SshFileSystemProvider                                                   *)
(***************************************************************************)

MAX_RETRIES == 3
RETRY_BASE_DELAY_MS == 75

\* Errors the SFTP channel can report: a numeric SFTP status code, a string
\* errno code, or an error object without a code.
NumErr(n) == [t |-> "num", n |-> n, s |-> ""]
StrErr(s) == [t |-> "str", n |-> 0, s |-> s]
NoCodeErr == [t |-> "nocode", n |-> 0, s |-> ""]
NoErr == [t |-> "ok", n |-> 0, s |-> ""]

SftpErrors ==
    {NumErr(n) : n \in 1..8} \cup {NoCodeErr}
    \cup {StrErr(s) : s \in {"ENOENT", "EAGAIN", "ECONNRESET", "ETIMEDOUT",
                             "EPIPE", "EACCES", "2", "4"}}

\* String(code) for the one-digit SFTP status codes.
NumToString(n) ==
    CASE n = 0 -> "0" [] n = 1 -> "1" [] n = 2 -> "2" [] n = 3 -> "3"
      [] n = 4 -> "4" [] n = 5 -> "5" [] n = 6 -> "6" [] n = 7 -> "7"
      [] n = 8 -> "8" [] OTHER -> "9"

getErrorCode(error) ==
    IF error.t = "num" THEN NumToString(error.n)
    ELSE IF error.t = "str" THEN error.s
    ELSE ""

isNotFoundError(error) ==
    LET code == getErrorCode(error) IN code = "2" \/ code = "ENOENT"

isRetryableError_no_epipe(error) ==
    LET code == getErrorCode(error)
    IN  code \in {"4", "EAGAIN", "ECONNRESET", "ETIMEDOUT"}

isRetryableError(error) ==
    LET code == getErrorCode(error)
    IN  code \in {"4", "EAGAIN", "ECONNRESET", "ETIMEDOUT", "EPIPE"}

classifySftpError(error) ==
    IF isNotFoundError(error) THEN "not_found"
    ELSE IF isRetryableError(error) THEN "transient"
    ELSE "permanent"

\* The catch block of the retry loops of readFile, stat and readdir:
\* TRUE when the loop sleeps and continues, FALSE when it rethrows.
RetriesAfter_always(error, att) == att < MAX_RETRIES

RetriesAfter_unbounded(error, att) == classifySftpError(error) = "transient"

RetriesAfter_one_short(error, att) ==
    classifySftpError(error) = "transient" /\ att + 1 < MAX_RETRIES

RetriesAfter(error, att) ==
    classifySftpError(error) = "transient" /\ att < MAX_RETRIES

\* The delay of the sleep after a failed attempt.
BackoffDelay_constant(att) == RETRY_BASE_DELAY_MS

BackoffDelay(att) == RETRY_BASE_DELAY_MS * att

\* exists(): the value returned when the inner stat() threw `error`.
ExistsOnError_pessimistic(error) == FALSE

ExistsOnError(error) ==
    IF classifySftpError(error) = "not_found" THEN FALSE
    ELSE IF classifySftpError(error) = "transient" THEN TRUE
    ELSE FALSE

\* a & b on non-negative integers
RECURSIVE BitAnd(_, _)
BitAnd(a, b) ==
    IF a = 0 \/ b = 0 THEN 0
    ELSE (a % 2) * (b % 2) + 2 * BitAnd(a \div 2, b \div 2)

\* 0o170000, 0o100000, 0o040000
S_IFMT == 61440
S_IFREG == 32768
S_IFDIR == 16384

\* `undefined` where a number is expected
Undefined == 0 - 1

\* isFile: () => (mode & S_IFMT) === S_IFREG
isFile_bit_test(mode, sifmt, sifreg) == BitAnd(mode, sifreg) # 0
isFile(mode, sifmt, sifreg) == BitAnd(mode, sifmt) = sifreg

\* isDirectory: () => (mode & S_IFMT) === S_IFDIR
isDirectory(mode, sifmt, sifdir) == BitAnd(mode, sifmt) = sifdir

\* (stats.mtime ?? 0) * 1000
MtimeMsOrZero(mtime) == IF mtime = Undefined THEN 0 ELSE mtime * 1000

\* The FsStatResult that the stat callback resolves with; `mode` is the value
\* its two closures capture, isFile and isDirectory what they return.
StatResult(stats) ==
    [size |-> stats.size,
     mtimeMs |-> MtimeMsOrZero(stats.mtime),
     birthtimeMs |-> MtimeMsOrZero(stats.mtime),
     mode |-> stats.mode,
     isFile |-> isFile(stats.mode, S_IFMT, S_IFREG),
     isDirectory |-> isDirectory(stats.mode, S_IFMT, S_IFDIR)]

buildDirent(filename, mode, sifmt, sifreg, sifdir, size, mtimeSeconds) ==
    LET mtimeMs == IF mtimeSeconds # Undefined THEN mtimeSeconds * 1000
                   ELSE Undefined
    IN  [name |-> filename,
         mode |-> mode,
         isFile |-> isFile(mode, sifmt, sifreg),
         isDirectory |-> isDirectory(mode, sifmt, sifdir),
         size |-> size,
         mtimeMs |-> mtimeMs,
         birthtimeMs |-> mtimeMs]

\* Modes a server reports: regular file 0o100644, directory 0o040755,
\* symbolic link 0o120777, socket 0o140755, block device 0o060660,
\* FIFO 0o010644, and no type bits at all.
SftpModes == {33188, 16877, 41471, 49645, 25008, 4516, 420}

SftpAttrs ==
    [mode : SftpModes, size : {0, 12}, mtime : {Undefined, 0, 1700}]

MaxEntries == 2

\* The lists a readdir callback receives: here up to MaxEntries items, each a
\* file, a directory without modification time, or a socket.
ReaddirItems ==
    {[filename |-> n, attrs |-> a] :
        n \in {"CLAUDE.md"},
        a \in {[mode |-> 33188, size |-> 12, mtime |-> 1700],
                [mode |-> 16877, size |-> 0, mtime |-> Undefined],
                [mode |-> 49645, size |-> 0, mtime |-> 1700]}}

ReaddirLists ==
    {<<>>} \cup UNION {[1..n -> ReaddirItems] : n \in 1..MaxEntries}

\* File contents: an empty file and a short one.
FileContents == {"", "# Rules"}

\* What the SFTP callback hands over on success.
SftpAnswers(op) ==
    IF op = "stat" THEN SftpAttrs
    ELSE IF op = "readdir" THEN ReaddirLists
    ELSE IF op = "readFile" THEN FileContents
    ELSE {""}

\* What the operation resolves with: stat one FsStatResult, readdir the
\* FsDirent list, readFile the content; fsValue holds them as a list.
Resolved(op, d) ==
    IF op = "stat" THEN <<StatResult(d)>>
    ELSE IF op = "readdir"
    THEN [i \in DOMAIN d |->
            buildDirent(d[i].filename, d[i].attrs.mode, S_IFMT, S_IFREG, S_IFDIR,
                        d[i].attrs.size, d[i].attrs.mtime)]
    ELSE IF op = "readFile" THEN <<d>>
    ELSE <<>>

FsOps == {"readFile", "stat", "readdir", "exists"}

NoOutcome == [kind |-> "none", err |-> NoErr]

\* A caller invokes an operation; the first SFTP request is about to be made.
FsCall(op) ==
    /\ fsPc = "idle"
    /\ fsOp' = op
    /\ fsPc' = "call"
    /\ attempt' = 1
    /\ replies' = <<>>
    /\ sleeps' = <<>>
    /\ fsOutcome' = NoOutcome
    /\ fsValue' = <<>>
    /\ UNCHANGED <<reader, swVars, valVars, regVars, storVars>>

\* How an operation that ends with `r` (NoErr for success) reports to its
\* caller: readFile/stat/readdir return the value or throw the error itself;
\* exists wraps stat and never throws.
Finish_replacement(op, r) ==
    IF op = "exists"
    THEN IF r = NoErr THEN [kind |-> "true", err |-> NoErr]
         ELSE IF ExistsOnError(r) THEN [kind |-> "true", err |-> NoErr]
         ELSE [kind |-> "false", err |-> NoErr]
    ELSE IF r = NoErr THEN [kind |-> "value", err |-> NoErr]
         ELSE [kind |-> "throw", err |-> NoCodeErr]

Finish(op, r) ==
    IF op = "exists"
    THEN IF r = NoErr THEN [kind |-> "true", err |-> NoErr]
         ELSE IF ExistsOnError(r) THEN [kind |-> "true", err |-> NoErr]
         ELSE [kind |-> "false", err |-> NoErr]
    ELSE IF r = NoErr THEN [kind |-> "value", err |-> NoErr]
         ELSE [kind |-> "throw", err |-> r]

\* The SFTP callback fires with success or with an error; the body of the
\* loop runs up to the next await (the sleep) or to the return/throw.
SftpReply(r) ==
    /\ fsPc = "call"
    /\ replies' = Append(replies, r)
    /\ IF r # NoErr /\ RetriesAfter(r, attempt)
       THEN /\ sleeps' = Append(sleeps, BackoffDelay(attempt))
            /\ fsPc' = "sleep"
            /\ UNCHANGED <<fsOutcome, fsValue>>
       ELSE /\ fsOutcome' = Finish(fsOp, r)
            /\ fsPc' = "done"
            /\ IF r = NoErr
               THEN \E d \in SftpAnswers(fsOp) : fsValue' = Resolved(fsOp, d)
               ELSE UNCHANGED fsValue
            /\ UNCHANGED sleeps
    /\ UNCHANGED <<fsOp, attempt, reader, swVars, valVars, regVars, storVars>>

\* The backoff timer fires: `continue` re-enters the loop with attempt + 1.
SleepDone ==
    /\ fsPc = "sleep"
    /\ attempt' = attempt + 1
    /\ fsPc' = "call"
    /\ UNCHANGED <<fsOp, replies, sleeps, fsOutcome, fsValue, reader, swVars, valVars, regVars, storVars>>

\* createReadStream(): what the caller holds when the function returns, r
\* being how this.sftp.createReadStream went (NoErr: it returned the SFTP
\* stream; otherwise it threw r). The catch block returns a fresh PassThrough.
StreamAtReturn_throws(r) ==
    IF r = NoErr THEN [kind |-> "stream", err |-> NoErr]
    ELSE [kind |-> "throw", err |-> r]

StreamAtReturn(r) == [kind |-> "stream", err |-> NoErr]

\* A caller invokes createReadStream: the function is synchronous, it calls
\* this.sftp.createReadStream once and returns a stream; when that call threw,
\* errStream.destroy(err) is left scheduled with process.nextTick.
CreateReadStream(r) ==
    /\ fsPc = "idle"
    /\ fsOp' = "createReadStream"
    /\ attempt' = 1
    /\ replies' = <<r>>
    /\ sleeps' = <<>>
    /\ fsOutcome' = StreamAtReturn(r)
    /\ fsValue' = <<>>
    /\ fsPc' = IF r = NoErr THEN "stream" ELSE "tick"
    /\ UNCHANGED <<reader, swVars, valVars, regVars, storVars>>

\* The nextTick callback runs: errStream.destroy(err).
NextTick ==
    /\ fsPc = "tick"
    /\ fsOutcome' = [kind |-> "streamError", err |-> replies[1]]
    /\ fsPc' = "done"
    /\ UNCHANGED <<fsOp, attempt, replies, sleeps, fsValue, reader, swVars, valVars, regVars, storVars>>

\* The SFTP stream emits 'error': passthrough.destroy(err).
StreamError(e) ==
    /\ fsPc = "stream"
    /\ fsOutcome' = [kind |-> "streamError", err |-> e]
    /\ fsPc' = "done"
    /\ UNCHANGED <<fsOp, attempt, replies, sleeps, fsValue, reader, swVars, valVars, regVars, storVars>>

\* The SFTP stream ends: the piped PassThrough ends with it.
StreamEnd ==
    /\ fsPc = "stream"
    /\ fsOutcome' = [kind |-> "streamEnd", err |-> NoErr]
    /\ fsPc' = "done"
    /\ UNCHANGED <<fsOp, attempt, replies, sleeps, fsValue, reader, swVars, valVars, regVars, storVars>>

\* dispose(): how it ends for its caller when this.sftp.end() went as r
\* (NoErr: it returned; otherwise it threw r). The catch block is empty.
DisposeOutcome_rethrow(r) ==
    IF r = NoErr THEN [kind |-> "void", err |-> NoErr]
    ELSE [kind |-> "throw", err |-> r]

DisposeOutcome(r) == [kind |-> "void", err |-> NoErr]

\* A caller invokes dispose: synchronous, this.sftp.end() is called once.
Dispose(r) ==
    /\ fsPc = "idle"
    /\ fsOp' = "dispose"
    /\ attempt' = 1
    /\ replies' = <<r>>
    /\ sleeps' = <<>>
    /\ fsOutcome' = DisposeOutcome(r)
    /\ fsValue' = <<>>
    /\ fsPc' = "done"
    /\ UNCHANGED <<reader, swVars, valVars, regVars, storVars>>

\* The caller has consumed the outcome; the provider is ready for a new call.
FsReturn ==
    /\ fsPc = "done"
    /\ reader.pc \in {"idle", "done"}
    /\ fsPc' = "idle"
    /\ UNCHANGED <<fsOp, attempt, replies, sleeps, fsOutcome, fsValue, reader, swVars, valVars, regVars, storVars>>

(***************************************************************************)
(* ClaudeMdReader: readClaudeMdFile on the remote provider                 *)
(***************************************************************************)

\* ClaudeMdFileInfo (without the path), and whether the call rejected.
FileInfo(exists, charCount, estimatedTokens) ==
    [threw |-> FALSE, exists |-> exists, charCount |-> charCount,
     estimatedTokens |-> estimatedTokens]

NoReader ==
    [pc |-> "idle", statReplies |-> <<>>, readReplies |-> <<>>,
     content |-> "", result |-> FileInfo(FALSE, 0, 0)]

\* The catch block of readClaudeMdFile: the error is logged, the file is
\* reported as not existing.
CatchInfo_rethrow(error) == [FileInfo(FALSE, 0, 0) EXCEPT !.threw = TRUE]
CatchInfo(error) == FileInfo(FALSE, 0, 0)

\* What countTokens(content) may give: a count, or Undefined for a throw.
TokenCounts == {0, 2, Undefined}

\* The provider starts `op` for readClaudeMdFile.
ProviderCalled(op) ==
    /\ fsOp' = op
    /\ fsPc' = "call"
    /\ attempt' = 1
    /\ replies' = <<>>
    /\ sleeps' = <<>>
    /\ fsOutcome' = NoOutcome
    /\ fsValue' = <<>>

\* readClaudeMdFile(filePath, fsProvider) is called: fsProvider.exists.
ReadClaudeMdFile ==
    /\ reader.pc \in {"idle", "done"}
    /\ fsPc = "idle"
    /\ reader' = [NoReader EXCEPT !.pc = "exists"]
    /\ ProviderCalled("exists")
    /\ UNCHANGED <<swVars, valVars, regVars, storVars>>

\* exists() has answered: false returns the not-existing info, true goes on
\* to fsProvider.readFile.
ExistsAnswered ==
    /\ reader.pc = "exists"
    /\ fsPc = "done"
    /\ IF fsOutcome.kind = "true"
       THEN /\ reader' = [reader EXCEPT !.pc = "readFile", !.statReplies = replies]
            /\ ProviderCalled("readFile")
       ELSE /\ reader' = [reader EXCEPT !.pc = "done", !.statReplies = replies,
                                        !.result = FileInfo(FALSE, 0, 0)]
            /\ fsPc' = "idle"
            /\ UNCHANGED <<fsOp, attempt, replies, sleeps, fsOutcome, fsValue>>
    /\ UNCHANGED <<swVars, valVars, regVars, storVars>>

\* readFile() has returned the content or thrown; countTokens gives t.
ReadAnswered(t) ==
    /\ reader.pc = "readFile"
    /\ fsPc = "done"
    /\ reader' =
         [reader EXCEPT
            !.pc = "done",
            !.readReplies = replies,
            !.content = IF fsOutcome.kind = "value" THEN fsValue[1] ELSE "",
            !.result =
               IF fsOutcome.kind # "value" THEN CatchInfo(fsOutcome.err)
               ELSE IF t = Undefined THEN CatchInfo(NoCodeErr)
               ELSE FileInfo(TRUE, Len(fsValue[1]), t)]
    /\ fsPc' = "idle"
    /\ UNCHANGED <<fsOp, attempt, replies, sleeps, fsOutcome, fsValue>>
    /\ UNCHANGED <<swVars, valVars, regVars, storVars>>

(***************************************************************************)
(* Workspace data: projects, repository groups, tabs, panes                *)
(***************************************************************************)

MaxTabs == 2
MaxPanes == 2

Project(id) == [id |-> id]
Worktree(id) == [id |-> id]
RepoGroup(id, wts) == [id |-> id, worktrees |-> wts]

Tab(id, type, projectId) == [id |-> id, type |-> type, projectId |-> projectId]

Pane(id, tabs, activeTab, selected, width) ==
    [id |-> id, tabs |-> tabs, activeTabId |-> activeTab,
     selectedTabIds |-> selected, widthFraction |-> width]

\* widthFraction is kept in hundredths (1 is 100).
DefaultPane == Pane("pane-default", <<>>, None, <<>>, 100)

Range(s) == {s[i] : i \in DOMAIN s}

\* Array.prototype.some / find(...) !== undefined over the ids of a list.
HasId(list, id) == \E i \in DOMAIN list : list[i].id = id

\* list[0]?.id ?? null
FirstIdOrNull_none(list) == None
FirstIdOrNull(list) == IF Len(list) > 0 THEN list[1].id ELSE None

\* ids.filter(id => list.some(t => t.id === id))
FilterIds_keep_all(ids, list) == ids
FilterIds(ids, list) ==
    LET Keep(id) == HasId(list, id) IN SelectSeq(ids, Keep)

\* freshRepoGroups.flatMap(rg => rg.worktrees.map(w => w.id)) as a set
WorktreeIdsOf(repoGroups) ==
    UNION {{repoGroups[i].worktrees[j].id : j \in DOMAIN repoGroups[i].worktrees} :
           i \in DOMAIN repoGroups}

ProjectIdsOf(projects) == {projects[i].id : i \in DOMAIN projects}

(***************************************************************************)
(* contextSlice: getEmptyContextState, validateSnapshot, captureSnapshot   *)
(***************************************************************************)

\* getFullResetState() of stateResetHelpers: the selections go back to null.
getFullResetState ==
    [selectedProjectId |-> None, selectedRepositoryId |-> None,
     selectedWorktreeId |-> None]

getEmptyContextState ==
    [projects |-> <<>>,
     repositoryGroups |-> <<>>,
     selectedProjectId |-> getFullResetState.selectedProjectId,
     selectedRepositoryId |-> getFullResetState.selectedRepositoryId,
     selectedWorktreeId |-> getFullResetState.selectedWorktreeId,
     openTabs |-> <<>>,
     activeTabId |-> None,
     selectedTabIds |-> <<>>,
     activeProjectId |-> None,
     paneLayout |-> [panes |-> <<DefaultPane>>, focusedPaneId |-> "pane-default"]]

\* The predicate of both tab filters of validateSnapshot.
TabIsValid_keep_all(tab, validProjectIds, validWorktreeIds) == TRUE

TabIsValid_projects_only(tab, validProjectIds, validWorktreeIds) ==
    IF tab.type = "session" /\ tab.projectId # None
    THEN tab.projectId \in validProjectIds
    ELSE TRUE

TabIsValid(tab, validProjectIds, validWorktreeIds) ==
    IF tab.type = "session" /\ tab.projectId # None
    THEN tab.projectId \in validProjectIds \/ tab.projectId \in validWorktreeIds
    ELSE TRUE

\* The .map() callback over snapshot.paneLayout.panes.
ValidatePane(pane, validProjectIds, validWorktreeIds) ==
    LET Keep(tab) == TabIsValid(tab, validProjectIds, validWorktreeIds)
        paneTabs == SelectSeq(pane.tabs, Keep)
        paneActiveId == IF HasId(paneTabs, pane.activeTabId)
                        THEN pane.activeTabId
                        ELSE FirstIdOrNull(paneTabs)
    IN  [pane EXCEPT !.tabs = paneTabs,
                     !.activeTabId = paneActiveId,
                     !.selectedTabIds = FilterIds(pane.selectedTabIds, paneTabs)]

\* The .filter() callback over the mapped panes: panes left without tabs go.
PaneHasTabs_keep_all(pane) == TRUE

PaneHasTabs(pane) == Len(pane.tabs) > 0

\* "Ensure at least one pane exists"
FinalPanes(validatedPanes) ==
    IF Len(validatedPanes) > 0 THEN validatedPanes ELSE <<DefaultPane>>

\* `const selectedRepositoryId = snapshot.selectedRepositoryId`: the fresh
\* repository groups are not consulted.
RepositoryIdKept_validated(snapshot, freshRepoGroups) ==
    IF HasId(freshRepoGroups, snapshot.selectedRepositoryId)
    THEN snapshot.selectedRepositoryId ELSE None
RepositoryIdKept(snapshot, freshRepoGroups) == snapshot.selectedRepositoryId

validateSnapshot(snapshot, freshProjects, freshRepoGroups) ==
    LET validProjectIds == ProjectIdsOf(freshProjects)
        validWorktreeIds == WorktreeIdsOf(freshRepoGroups)
        selectedProjectId ==
            IF snapshot.selectedProjectId # None
               /\ snapshot.selectedProjectId \in validProjectIds
            THEN snapshot.selectedProjectId ELSE None
        selectedRepositoryId == RepositoryIdKept(snapshot, freshRepoGroups)
        selectedWorktreeId ==
            IF snapshot.selectedWorktreeId # None
               /\ snapshot.selectedWorktreeId \in validWorktreeIds
            THEN snapshot.selectedWorktreeId ELSE None
        Keep(tab) == TabIsValid(tab, validProjectIds, validWorktreeIds)
        validTabs == SelectSeq(snapshot.openTabs, Keep)
        activeTabId ==
            IF snapshot.activeTabId # None /\ ~HasId(validTabs, snapshot.activeTabId)
            THEN FirstIdOrNull(validTabs) ELSE snapshot.activeTabId
        mapped == [i \in DOMAIN snapshot.paneLayout.panes |->
                     ValidatePane(snapshot.paneLayout.panes[i],
                                  validProjectIds, validWorktreeIds)]
        validatedPanes == SelectSeq(mapped, PaneHasTabs)
        finalPanes == FinalPanes(validatedPanes)
    IN  [projects |-> freshProjects,
         selectedProjectId |-> selectedProjectId,
         repositoryGroups |-> freshRepoGroups,
         selectedRepositoryId |-> selectedRepositoryId,
         selectedWorktreeId |-> selectedWorktreeId,
         openTabs |-> validTabs,
         activeTabId |-> activeTabId,
         selectedTabIds |-> FilterIds(snapshot.selectedTabIds, validTabs),
         activeProjectId |->
            IF snapshot.activeProjectId # None
               /\ (snapshot.activeProjectId \in validProjectIds
                   \/ snapshot.activeProjectId \in validWorktreeIds)
            THEN snapshot.activeProjectId ELSE selectedProjectId,
         paneLayout |->
            [panes |-> finalPanes,
             focusedPaneId |->
                IF HasId(finalPanes, snapshot.paneLayout.focusedPaneId)
                THEN snapshot.paneLayout.focusedPaneId
                ELSE finalPanes[1].id]]

\* Date.now() is read by the caller and passed in as capturedAt.
captureSnapshot(state, contextId, capturedAt) ==
    [projects |-> state.projects,
     selectedProjectId |-> state.selectedProjectId,
     repositoryGroups |-> state.repositoryGroups,
     selectedRepositoryId |-> state.selectedRepositoryId,
     selectedWorktreeId |-> state.selectedWorktreeId,
     openTabs |-> state.openTabs,
     activeTabId |-> state.activeTabId,
     selectedTabIds |-> state.selectedTabIds,
     activeProjectId |-> state.activeProjectId,
     paneLayout |-> state.paneLayout,
     metadata |-> [contextId |-> contextId, capturedAt |-> capturedAt, version |-> 1]]

\* The workspace fields of a snapshot (what set(validatedState) writes).
WsFields == {"projects", "selectedProjectId", "repositoryGroups",
             "selectedRepositoryId", "selectedWorktreeId", "openTabs",
             "activeTabId", "selectedTabIds", "activeProjectId", "paneLayout"}

\* What switchContext applies once loadSnapshot has returned (steps 4 of
\* switchContext): the validated snapshot, or the empty state carrying the
\* fresh lists when loadSnapshot returned null.
NullSnapshot == [null |-> TRUE]
IsNull(snapshot) == "null" \in DOMAIN snapshot

\* A record written by a build whose snapshot had no pane layout: reading
\* snapshot.paneLayout.panes throws a TypeError inside validateSnapshot.
ValidateThrows(snapshot) == "paneLayout" \notin DOMAIN snapshot

RestoredState(targetSnapshot, freshProjects, freshRepoGroups) ==
    IF ~IsNull(targetSnapshot)
    THEN validateSnapshot(targetSnapshot, freshProjects, freshRepoGroups)
    ELSE [getEmptyContextState EXCEPT !.projects = freshProjects,
                                      !.repositoryGroups = freshRepoGroups]

(***************************************************************************)
(* contextStorage: saveSnapshot, loadSnapshot, deleteSnapshot              *)
(***************************************************************************)

SNAPSHOT_TTL_MS == 5 * 60 * 1000
SNAPSHOT_VERSION == 1
STORAGE_KEY_PREFIX == "context-snapshot:"

Contexts == {"local", "ssh-a"}

\* The key of a context's record: `${STORAGE_KEY_PREFIX}${contextId}`.
StorageKey(contextId) == STORAGE_KEY_PREFIX \o contextId

\* k.startsWith(STORAGE_KEY_PREFIX)
IsSnapshotKey_any(k) == TRUE

IsSnapshotKey(k) ==
    /\ Len(k) >= Len(STORAGE_KEY_PREFIX)
    /\ SubSeq(k, 1, Len(STORAGE_KEY_PREFIX)) = STORAGE_KEY_PREFIX

\* Keys of the same store that are not snapshot keys: the probe key of
\* isAvailable, and a key that shares only part of the prefix.
OtherKeys == {"__idb_test__", "context-snapshot-index"}

Absent == [present |-> FALSE, failed |-> FALSE, snapshot |-> NullSnapshot,
           timestamp |-> 0, version |-> 0]
\* What a rejected get() leaves loadSnapshot with (its catch returns null).
ReadFailed == [Absent EXCEPT !.failed = TRUE]

Stored(snapshot, timestamp, version) ==
    [present |-> TRUE, failed |-> FALSE, snapshot |-> snapshot,
     timestamp |-> timestamp, version |-> version]

\* The value under a key that is not a snapshot key.
OtherValue == Stored(NullSnapshot, 0, 0)

\* The store with record r under the key of context c and nothing under the
\* keys of the other contexts of ctxs.
StoreHolding(ctxs, c, r) ==
    [k \in {StorageKey(x) : x \in ctxs} \cup OtherKeys |->
        IF k \in OtherKeys THEN OtherValue
        ELSE IF k = StorageKey(c) THEN r
        ELSE Absent]

\* IndexedDB requests. idb-keyval runs each in its own transaction on the one
\* object store, so they execute in the order they were issued.
SetReq(key, rec, p) == [op |-> "set", key |-> key, rec |-> rec, proc |-> p]
GetReq(key, p) == [op |-> "get", key |-> key, rec |-> Absent, proc |-> p]
DelReq(key) == [op |-> "del", key |-> key, rec |-> Absent, proc |-> 0]

\* saveSnapshot up to its `await set(key, stored)`.
saveSnapshotRequest_one_key(contextId, snapshot, p) ==
    SetReq(StorageKey("local"), Stored(snapshot, now, SNAPSHOT_VERSION), p)
saveSnapshotRequest(contextId, snapshot, p) ==
    SetReq(StorageKey(contextId), Stored(snapshot, now, SNAPSHOT_VERSION), p)

\* Whether saveSnapshot rejects when its set() settled with `ok`: its catch
\* logs the error and returns.
saveSnapshotThrows_rethrow(ok) == ~ok

saveSnapshotThrows(ok) == FALSE

\* The checks of loadSnapshot on what get() returned, read at time `t`:
\* "null" (absent or read failure), "expired", "version", or "ok".
LoadVerdict_no_ttl(stored, t) ==
    IF stored.failed \/ ~stored.present THEN "null"
    ELSE IF stored.version # SNAPSHOT_VERSION THEN "version"
    ELSE "ok"

LoadVerdict_no_version(stored, t) ==
    IF stored.failed \/ ~stored.present THEN "null"
    ELSE IF t - stored.timestamp > SNAPSHOT_TTL_MS THEN "expired"
    ELSE "ok"

LoadVerdict_ttl_inclusive(stored, t) ==
    IF stored.failed \/ ~stored.present THEN "null"
    ELSE IF t - stored.timestamp >= SNAPSHOT_TTL_MS THEN "expired"
    ELSE IF stored.version # SNAPSHOT_VERSION THEN "version"
    ELSE "ok"

LoadVerdict(stored, t) ==
    IF stored.failed \/ ~stored.present THEN "null"
    ELSE IF t - stored.timestamp > SNAPSHOT_TTL_MS THEN "expired"
    ELSE IF stored.version # SNAPSHOT_VERSION THEN "version"
    ELSE "ok"

\* The value loadSnapshot returns.
loadSnapshotResult(stored, t) ==
    IF LoadVerdict(stored, t) = "ok" THEN stored.snapshot ELSE NullSnapshot

\* The requests loadSnapshot leaves behind: `void deleteSnapshot(contextId)`
\* calls del(key) and is not awaited.
loadSnapshotDeletes(contextId, stored, t) ==
    IF LoadVerdict(stored, t) \in {"expired", "version"}
    THEN <<DelReq(StorageKey(contextId))>> ELSE <<>>

\* ---- contextStorage called directly ----

\* saveSnapshot calls made in one behaviour.
MaxSaves == 2

\* loadSnapshot calls made in one behaviour.
MaxLoads == 1

\* The requests of cleanupExpired carry this in place of an invocation number.
SweepProc == 0 - 1

KeysReq == [op |-> "keys", key |-> "", rec |-> Absent, proc |-> SweepProc]

\* keys() returns the keys that hold a value, in key order.
KeysInOrder ==
    <<"__idb_test__", "context-snapshot-index", StorageKey("local"),
      StorageKey("ssh-a")>>

RECURSIVE SelectKeys(_, _, _)
SelectKeys(seq, store, snapshotOnly) ==
    IF seq = <<>> THEN <<>>
    ELSE LET k == Head(seq)
             rest == SelectKeys(Tail(seq), store, snapshotOnly)
         IN  IF store[k].present /\ (snapshotOnly => IsSnapshotKey(k))
             THEN <<k>> \o rest ELSE rest

\* allKeys.filter(k => typeof k === 'string' && k.startsWith(STORAGE_KEY_PREFIX))
snapshotKeys(store) == SelectKeys(KeysInOrder, store, TRUE)

\* cleanupExpired: the test on a record read at sweep time `t`.
SweepDeletes_all(stored, t) == stored.present

SweepDeletes(stored, t) ==
    stored.present /\ t - stored.timestamp > SNAPSHOT_TTL_MS

NoSweep ==
    [pc |-> "idle", todo |-> <<>>, at |-> 0, threw |-> FALSE,
     aborted |-> FALSE, skipped |-> {}]

StorIdle ==
    /\ saves = <<>>
    /\ settled = <<>>
    /\ sweep = NoSweep
    /\ loads = <<>>

(***************************************************************************)
(* contextSlice: switchContext                                             *)
(***************************************************************************)

MaxProcs == 2       \* switchContext invocations that can be in flight at once
MaxCalls == 2       \* calls of switchContext in one behaviour
MaxTicks == 1       \* advances of the clock, each of the TTL + 1 ms

Procs == 1..MaxProcs

\* The clock starts late enough for records older than the TTL to exist.
StartTime == SNAPSHOT_TTL_MS + 1

\* What getProjects() / getRepositoryGroups() of the main process answer while
\* it serves context c.
FreshProjects(c) ==
    CASE c = "local" -> <<Project("p1"), Project("p2")>>
      [] c = "ssh-a" -> <<Project("p2")>>
      [] c = "ssh-b" -> <<Project("p3")>>
      [] OTHER -> <<>>

FreshRepoGroups(c) ==
    CASE c = "local" -> <<RepoGroup("r1", <<Worktree("w1")>>)>>
      [] OTHER -> <<>>

IdleProc ==
    [pc |-> "idle", target |-> None, from |-> None,
     freshProjects |-> <<>>, freshRepoGroups |-> <<>>, stored |-> Absent]

NoLoad == [ctx |-> None, stored |-> Absent, at |-> 0, result |-> NullSnapshot]
NoEnd == [how |-> "none", target |-> None, from |-> None]

\* "Early return if already on target context"
AlreadyOnTarget_never(target, active) == FALSE

AlreadyOnTarget(target, active) == target = active

\* switchContext(targetContextId) up to its first await: the early return,
\* set({isContextSwitching, targetContextId}), captureSnapshot, and
\* saveSnapshot up to `await set(key, stored)`.
switchContextWithin(t, limit) ==
    /\ lastCall.n < limit
    /\ lastCall' = [n |-> lastCall.n + 1, target |-> t]
    /\ IF AlreadyOnTarget(t, activeContextId)
       THEN UNCHANGED <<storeVars, envVars, procs, idbQueue, lastLoad, lastEnd>>
       ELSE /\ \E p \in Procs :
                /\ procs[p].pc = "idle"
                /\ \A q \in Procs : q < p => procs[q].pc # "idle"
                /\ procs' = [procs EXCEPT ![p] =
                       [IdleProc EXCEPT !.pc = "save", !.target = t, !.from = activeContextId]]
                /\ idbQueue' = Append(idbQueue,
                       saveSnapshotRequest(activeContextId,
                           captureSnapshot(ws, activeContextId, now), p))
            /\ isContextSwitching' = TRUE
            /\ targetContextId' = t
            /\ UNCHANGED <<activeContextId, ws, envVars, lastLoad, lastEnd>>
    /\ UNCHANGED <<fsVars, valVars, regVars, storVars>>

switchContext(t) == switchContextWithin(t, MaxCalls)

\* ContextSwitcher / WorkspaceIndicator: an item of the dropdown is clicked.
\* The dropdown is rendered only while isContextSwitching is false.
ContextItemSelect(t) ==
    /\ ~isContextSwitching
    /\ switchContext(t)

\* Any other caller of the store action (it is part of the store's API).
StoreActionCall(t) == switchContext(t)

\* The catch block of switchContext.
SwitchCatch(p) ==
    /\ isContextSwitching' = FALSE
    /\ targetContextId' = None
    /\ procs' = [procs EXCEPT ![p] = IdleProc]
    /\ lastEnd' = [how |-> "failed",
                   target |-> procs[p].target, from |-> procs[p].from]
    /\ UNCHANGED <<activeContextId, ws>>

\* IndexedDB executes the oldest request, a set: the write lands or is
\* rejected; saveSnapshot swallows the rejection. switchContext goes on to
\* request the main-process switch.
IdbSet(ok) ==
    /\ idbQueue # <<>>
    /\ Head(idbQueue).op = "set"
    /\ LET req == Head(idbQueue) IN
        /\ idb' = IF ok THEN [idb EXCEPT ![req.key] = req.rec] ELSE idb
        /\ IF saveSnapshotThrows(ok)
           THEN SwitchCatch(req.proc)
           ELSE /\ procs' = [procs EXCEPT ![req.proc].pc = "mainSwitch"]
                /\ UNCHANGED <<storeVars, lastEnd>>
    /\ idbQueue' = Tail(idbQueue)
    /\ UNCHANGED <<mainActive, now, lastCall, lastLoad>>
    /\ UNCHANGED <<fsVars, valVars, regVars, storVars>>

\* IndexedDB executes a del issued by deleteSnapshot; deleteSnapshot swallows
\* a rejection.
IdbDel(ok) ==
    /\ idbQueue # <<>>
    /\ Head(idbQueue).op = "del"
    /\ Head(idbQueue).proc # SweepProc
    /\ idb' = IF ok THEN [idb EXCEPT ![Head(idbQueue).key] = Absent] ELSE idb
    /\ idbQueue' = Tail(idbQueue)
    /\ UNCHANGED <<storeVars, mainActive, now, procs, lastCall, lastLoad, lastEnd>>
    /\ UNCHANGED <<fsVars, valVars, regVars, storVars>>

\* IndexedDB executes the get of loadSnapshot: the value read is fixed now,
\* the continuation of loadSnapshot runs later.
IdbGet(ok) ==
    /\ idbQueue # <<>>
    /\ Head(idbQueue).op = "get"
    /\ LET req == Head(idbQueue) IN
        procs' = [procs EXCEPT ![req.proc].pc = "loadCheck",
                               ![req.proc].stored =
                                    IF ok THEN idb[req.key] ELSE ReadFailed]
    /\ idbQueue' = Tail(idbQueue)
    /\ UNCHANGED <<storeVars, envVars, lastCall, lastLoad, lastEnd>>
    /\ UNCHANGED <<fsVars, valVars, regVars, storVars>>

\* Step 2: window.electronAPI.context.switch(target) is served by the main
\* process, or rejects.
MainSwitch(p, ok) ==
    /\ procs[p].pc = "mainSwitch"
    /\ IF ok
       THEN /\ mainActive' = procs[p].target
            /\ procs' = [procs EXCEPT ![p].pc = "fetch"]
            /\ UNCHANGED <<storeVars, lastEnd>>
       ELSE /\ SwitchCatch(p)
            /\ UNCHANGED mainActive
    /\ UNCHANGED <<idb, now, idbQueue, lastCall, lastLoad>>
    /\ UNCHANGED <<fsVars, valVars, regVars, storVars>>

\* Step 3: getProjects() and getRepositoryGroups() are served from the
\* context the main process is serving, or one of them rejects. On success
\* switchContext calls loadSnapshot, which issues get(key).
FetchFresh(p, ok) ==
    /\ procs[p].pc = "fetch"
    /\ IF ok
       THEN /\ procs' = [procs EXCEPT ![p].pc = "loadGet",
                            ![p].freshProjects = FreshProjects(mainActive),
                            ![p].freshRepoGroups = FreshRepoGroups(mainActive)]
            /\ idbQueue' = Append(idbQueue, GetReq(StorageKey(procs[p].target), p))
            /\ UNCHANGED <<storeVars, lastEnd>>
       ELSE /\ SwitchCatch(p)
            /\ UNCHANGED idbQueue
    /\ UNCHANGED <<envVars, lastCall, lastLoad>>
    /\ UNCHANGED <<fsVars, valVars, regVars, storVars>>

\* loadSnapshot resumes after its get and returns; switchContext resumes with
\* the result: steps 4 to 6, or the catch block when validateSnapshot throws.
LoadContinue(p) ==
    /\ procs[p].pc = "loadCheck"
    /\ LET me == procs[p]
           targetSnapshot == loadSnapshotResult(me.stored, now)
       IN  /\ lastLoad' = [ctx |-> me.target, stored |-> me.stored,
                           at |-> now, result |-> targetSnapshot]
           /\ idbQueue' = idbQueue \o loadSnapshotDeletes(me.target, me.stored, now)
           /\ IF ~IsNull(targetSnapshot) /\ ValidateThrows(targetSnapshot)
              THEN SwitchCatch(p)
              ELSE /\ ws' = RestoredState(targetSnapshot, me.freshProjects,
                                          me.freshRepoGroups)
                   /\ isContextSwitching' = FALSE
                   /\ targetContextId' = None
                   /\ activeContextId' = me.target
                   /\ procs' = [procs EXCEPT ![p] = IdleProc]
                   /\ lastEnd' = [how |-> "done",
                                  target |-> me.target, from |-> me.from]
    /\ UNCHANGED <<envVars, lastCall>>
    /\ UNCHANGED <<fsVars, valVars, regVars, storVars>>

\* Time passes: long enough for a record written before to be past the TTL
\* (records of age exactly the TTL are among the initial ones).
Tick(d) ==
    /\ (now - StartTime) \div SNAPSHOT_TTL_MS < MaxTicks
    /\ now' = now + d
    /\ UNCHANGED <<storeVars, mainActive, idb, procs, idbQueue, lastCall,
                   lastLoad, lastEnd>>
    /\ UNCHANGED <<fsVars, valVars, regVars, storVars>>

(***************************************************************************)
(* Initial states                                                          *)
(***************************************************************************)

\* The workspace of the local context when the first switch is requested:
\* freshly started, or with a session open.
FreshLocalWorkspace ==
    RestoredState(NullSnapshot, FreshProjects("local"), FreshRepoGroups("local"))

UsedLocalWorkspace ==
    LET tabs == <<Tab("t1", "session", "p1"), Tab("t2", "dashboard", None)>>
    IN  [FreshLocalWorkspace EXCEPT
            !.selectedProjectId = "p1",
            !.selectedRepositoryId = "r1",
            !.selectedWorktreeId = "w1",
            !.openTabs = tabs,
            !.activeTabId = "t1",
            !.selectedTabIds = <<"t1">>,
            !.activeProjectId = "p1",
            !.paneLayout = [panes |-> <<Pane("pane-default", tabs, "t1", <<"t1">>, 100)>>,
                            focusedPaneId |-> "pane-default"]]

InitWorkspaces == {FreshLocalWorkspace, UsedLocalWorkspace}

\* Snapshots of the remote context left in IndexedDB by an earlier session:
\* one whose tabs partly survive validation against today's lists, one whose
\* panes all reference a project that is gone, and one without a pane layout.
SnapMixed ==
    LET a == Tab("t1", "session", "p1")
        b == Tab("t2", "session", "p2")
        state == [projects |-> <<Project("p1"), Project("p2")>>,
                  repositoryGroups |-> <<>>,
                  selectedProjectId |-> "p1",
                  selectedRepositoryId |-> "r1",
                  selectedWorktreeId |-> None,
                  openTabs |-> <<a, b>>,
                  activeTabId |-> "t1",
                  selectedTabIds |-> <<"t1", "t2">>,
                  activeProjectId |-> "p1",
                  paneLayout |->
                     [panes |-> <<Pane("pane-default", <<a>>, "t1", <<"t1">>, 50),
                                  Pane("pane-2", <<b>>, "t2", <<>>, 50)>>,
                      focusedPaneId |-> "pane-default"]]
    IN  captureSnapshot(state, "ssh-a", 0)

SnapStale ==
    LET a == Tab("t1", "session", "p1")
        state == [projects |-> <<Project("p1")>>,
                  repositoryGroups |-> <<>>,
                  selectedProjectId |-> "p1",
                  selectedRepositoryId |-> None,
                  selectedWorktreeId |-> None,
                  openTabs |-> <<a>>,
                  activeTabId |-> "t1",
                  selectedTabIds |-> <<>>,
                  activeProjectId |-> "p1",
                  paneLayout |->
                     [panes |-> <<Pane("pane-1", <<a>>, "t1", <<>>, 100)>>,
                      focusedPaneId |-> "pane-1"]]
    IN  captureSnapshot(state, "ssh-a", 0)

SnapNoLayout ==
    [projects |-> <<>>, repositoryGroups |-> <<>>, selectedProjectId |-> None,
     selectedRepositoryId |-> None, selectedWorktreeId |-> None,
     openTabs |-> <<>>, activeTabId |-> None, selectedTabIds |-> <<>>,
     activeProjectId |-> None,
     metadata |-> [contextId |-> "ssh-a", capturedAt |-> 0, version |-> 1]]

\* Records found under the remote context's key at start: none, or one of the
\* snapshots above, written more than the TTL ago (0), exactly the TTL ago (1)
\* or just now, by this build (version 1) or by one with another schema.
InitRemoteRecords ==
    {Absent} \cup
    {Stored(SnapMixed, t, v) : t \in {0, 1, StartTime},
                               v \in {SNAPSHOT_VERSION, SNAPSHOT_VERSION + 1}}
    \cup {Stored(s, StartTime, SNAPSHOT_VERSION) : s \in {SnapStale, SnapNoLayout}}

(***************************************************************************)
(* Main process: the registry of service contexts and the SSH connection   *)
(* (ServiceContextRegistry, ServiceContext, the SSH_CONNECT and            *)
(* SSH_DISCONNECT handlers)                                                *)
(***************************************************************************)

\* Requests (connect, disconnect, registry calls) made in one behaviour.
MaxOps == 4

Hosts == {"h1", "h2"}

\* Context ID for SSH: `ssh-${host}`.
SshContextId(h) == "ssh-" \o h

SshContextIds == {SshContextId(h) : h \in Hosts}
ContextIds == {"local"} \cup SshContextIds

\* A context object is named by its id and the number of contexts created
\* with that id up to and including it (its generation); ctxLife[id][g] is
\* the lifecycle stage of that object: created -> started -> stopped.
NotRegistered == 0

\* The map has an entry under this id.
HasContext(contexts, id) == contexts[id] # NotRegistered

\* registerContext(context): rejected when the id is already in the map.
registerContextOk(contexts, id) == ~HasContext(contexts, id)

\* switch(contextId): the target has to be registered.
switchOk_any(contexts, id) == TRUE
switchOk(contexts, id) == HasContext(contexts, id)

\* destroyContext(contextId): never for 'local'; the context has to be there.
destroyPermitted_local_too(contexts, id) == HasContext(contexts, id)
destroyPermitted(contexts, id) == id # "local" /\ HasContext(contexts, id)

\* The active id once contextId is destroyed: destroying the active context
\* falls back to 'local'.
ActiveAfterDestroy_keep(active, id) == active
ActiveAfterDestroy(active, id) == IF active = id THEN "local" ELSE active

\* The lifecycle stages of the object (id, g) set to stage.
SetStage(life, id, g, stage) == [life EXCEPT ![id][g] = stage]

\* The SSH_CONNECT handler destroys a context registered under the new
\* context's id before it registers the new one.
ConnectDestroysExisting_never(contexts, id) == FALSE
ConnectDestroysExisting(contexts, id) == HasContext(contexts, id)

\* A connect request is taken for a host that is disconnected.
CanConnectFrom_any(state) == TRUE
CanConnectFrom(state) == state = "disconnected"

\* onContextSwitched is called after a registry switch that succeeded.
SwitchNotifies(ok) == ok

\* The SSH_DISCONNECT handler calls onContextSwitched with the local context.
DisconnectNotifiedId_remote(sshId) == sshId
DisconnectNotifiedId(sshId) == "local"

\* The steps of the connect flow that wait for I/O, in order: resolve the
\* profile, open the transport, open the file-transfer channel.
ConnectIoSteps == {"profile", "transport", "channel"}
NextIoStep(pc) ==
    CASE pc = "profile" -> "transport"
      [] pc = "transport" -> "channel"
      [] pc = "channel" -> "create"

NoFlow == [kind |-> "none", host |-> None, id |-> None, pc |-> "idle",
           gen |-> 0, before |-> None]
NoDestroy == [id |-> None, ok |-> FALSE]

\* After startup: the local context is registered, started and active, and
\* its file watcher events are wired to the renderer.
RegIdle ==
    /\ regContexts = [id \in ContextIds |-> IF id = "local" THEN 1 ELSE NotRegistered]
    /\ regActiveId = "local"
    /\ ctxLife = [id \in ContextIds |-> IF id = "local" THEN <<"started">> ELSE <<>>]
    /\ connState = [h \in Hosts |-> "disconnected"]
    /\ flow = NoFlow
    /\ notified = [n |-> 1, id |-> "local", gen |-> 1]
    /\ lastDestroy = NoDestroy
    /\ ops = 0

FsIdle ==
    /\ fsOp = "none"
    /\ fsPc = "idle"
    /\ attempt = 0
    /\ replies = <<>>
    /\ sleeps = <<>>
    /\ fsOutcome = NoOutcome
    /\ fsValue = <<>>
    /\ reader = NoReader

SwitchIdle ==
    /\ activeContextId = "local"
    /\ isContextSwitching = FALSE
    /\ targetContextId = None
    /\ mainActive = "local"
    /\ now = StartTime
    /\ procs = [p \in Procs |-> IdleProc]
    /\ idbQueue = <<>>
    /\ lastCall = [n |-> 0, target |-> None]
    /\ lastLoad = NoLoad
    /\ lastEnd = NoEnd

NoResult == [done |-> FALSE, state |-> getEmptyContextState]
NoInput == [snapshot |-> NullSnapshot, freshProjects |-> <<>>, freshRepoGroups |-> <<>>]

ValIdle ==
    /\ vIn = NoInput
    /\ vOut = NoResult

(***************************************************************************)
(* Spec: context switching                                                 *)
(***************************************************************************)

Init ==
    /\ FsIdle
    /\ RegIdle
    /\ StorIdle
    /\ ValIdle
    /\ SwitchIdle
    /\ ws \in InitWorkspaces
    /\ \E r \in InitRemoteRecords :
          idb = StoreHolding(Contexts, "ssh-a", r)

Next ==
    \/ \E t \in Contexts : ContextItemSelect(t)
    \/ \E t \in Contexts : StoreActionCall(t)
    \/ \E ok \in BOOLEAN : IdbSet(ok)
    \/ \E ok \in BOOLEAN : IdbGet(ok)
    \/ \E ok \in BOOLEAN : IdbDel(ok)
    \/ \E p \in Procs, ok \in BOOLEAN : MainSwitch(p, ok)
    \/ \E p \in Procs, ok \in BOOLEAN : FetchFresh(p, ok)
    \/ \E p \in Procs : LoadContinue(p)
    \/ \E d \in {SNAPSHOT_TTL_MS + 1} : Tick(d)

Spec == Init /\ [][Next]_vars

(***************************************************************************)
(* SpecMulti: context switching with two remote contexts available         *)
(***************************************************************************)

AllContexts == Contexts \cup {"ssh-b"}

\* Nothing is stored for 'local' and 'ssh-b'; for 'ssh-a' there is nothing,
\* an expired record, or a record of another schema version.
InitMulti ==
    /\ FsIdle
    /\ RegIdle
    /\ StorIdle
    /\ ValIdle
    /\ SwitchIdle
    /\ ws = UsedLocalWorkspace
    /\ \E r \in {Absent, Stored(SnapMixed, 0, SNAPSHOT_VERSION),
                  Stored(SnapMixed, StartTime, SNAPSHOT_VERSION + 1)} :
          idb = StoreHolding(AllContexts, "ssh-a", r)

NextMulti ==
    \/ \E t \in AllContexts : ContextItemSelect(t)
    \/ \E t \in AllContexts : StoreActionCall(t)
    \/ \E ok \in BOOLEAN : IdbSet(ok)
    \/ \E ok \in BOOLEAN : IdbGet(ok)
    \/ \E ok \in BOOLEAN : IdbDel(ok)
    \/ \E p \in Procs, ok \in BOOLEAN : MainSwitch(p, ok)
    \/ \E p \in Procs, ok \in BOOLEAN : FetchFresh(p, ok)
    \/ \E p \in Procs : LoadContinue(p)

SpecMulti == InitMulti /\ [][NextMulti]_vars

\* Three contexts and one more call: a call made after two overlapping calls
\* have completed captures and saves what they left in the store.
MaxOverlapCalls == 3

\* Any caller of the store action, from the dropdown or not.
SwitchContextCall(t) == switchContextWithin(t, MaxOverlapCalls)

NextOverlap ==
    \/ \E t \in AllContexts : SwitchContextCall(t)
    \/ \E ok \in BOOLEAN : IdbSet(ok)
    \/ \E ok \in BOOLEAN : IdbGet(ok)
    \/ \E ok \in BOOLEAN : IdbDel(ok)
    \/ \E p \in Procs, ok \in BOOLEAN : MainSwitch(p, ok)
    \/ \E p \in Procs, ok \in BOOLEAN : FetchFresh(p, ok)
    \/ \E p \in Procs : LoadContinue(p)

SpecOverlap == InitMulti /\ [][NextOverlap]_vars

(***************************************************************************)
(* SpecFs: the remote provider                                             *)
(***************************************************************************)

InitFs ==
    /\ FsIdle
    /\ RegIdle
    /\ StorIdle
    /\ ValIdle
    /\ SwitchIdle
    /\ ws = FreshLocalWorkspace
    /\ idb = StoreHolding(Contexts, "local", Absent)

NextFs ==
    \/ \E op \in FsOps : FsCall(op)
    \/ \E r \in SftpErrors \cup {NoErr} : SftpReply(r)
    \/ SleepDone
    \/ \E r \in SftpErrors \cup {NoErr} : CreateReadStream(r)
    \/ NextTick
    \/ \E e \in SftpErrors : StreamError(e)
    \/ StreamEnd
    \/ \E r \in SftpErrors \cup {NoErr} : Dispose(r)
    \/ FsReturn

SpecFs == InitFs /\ [][NextFs]_vars

\* The provider when every SFTP request gets its callback and every timer
\* set by sleep() fires.
SpecFsLive ==
    /\ InitFs
    /\ [][NextFs]_vars
    /\ WF_vars(\E r \in SftpErrors \cup {NoErr} : SftpReply(r))
    /\ WF_vars(SleepDone)

(***************************************************************************)
(* SpecValidate: what switchContext applies, as a function of the snapshot *)
(* loadSnapshot returned and of the fresh lists                            *)
(***************************************************************************)

TabIdPool == <<"t1", "t2", "t3", "t4">>
PaneIdPool == <<"pane-default", "pane-2", "pane-3", "pane-4">>

TabIds == {TabIdPool[i] : i \in 1..MaxTabs}

\* Session tabs carry a project id (here a project, a worktree, or none yet);
\* the other tab types carry none.
TabShapes ==
    {[type |-> "session", projectId |-> x] : x \in {"p1", "w1", None}}
    \cup {[type |-> "dashboard", projectId |-> None]}

AllTabs == {Tab(id, sh.type, sh.projectId) : id \in TabIds, sh \in TabShapes}

DistinctIds(list) ==
    \A i, j \in DOMAIN list : i # j => list[i].id # list[j].id

SeqsUpTo(S, n) == UNION {[1..k -> S] : k \in 0..n}

TabLists == {l \in SeqsUpTo(AllTabs, MaxTabs) : DistinctIds(l)}

\* Selections: nothing, every tab id, or the last tab id alone.
IdLists == {<<>>, [i \in 1..MaxTabs |-> TabIdPool[i]], <<TabIdPool[MaxTabs]>>}

FreshProjectLists == {<<>>, <<Project("p1")>>, <<Project("p2"), Project("p1")>>}
FreshRepoGroupLists == {<<>>, <<RepoGroup("r1", <<Worktree("w1")>>)>>}

BaseSnapshot == captureSnapshot(getEmptyContextState, "ssh-a", 0)

\* The inputs: snapshots that differ in their selections; snapshots of a
\* single-pane window, whose pane holds the open tabs; snapshots of a split
\* window; and no snapshot at all.
ValidateInput(s, fp, fr) ==
    vIn = [snapshot |-> s, freshProjects |-> fp, freshRepoGroups |-> fr]

SelectionInputs ==
    \E sp \in {None, "p1", "p2"}, sr \in {None, "r1", "r9"},
       sw \in {None, "w1", "w2"}, ap \in {None, "p1", "p2", "w1"},
       fp \in FreshProjectLists, fr \in FreshRepoGroupLists :
        ValidateInput([BaseSnapshot EXCEPT
                          !.selectedProjectId = sp, !.selectedRepositoryId = sr,
                          !.selectedWorktreeId = sw, !.activeProjectId = ap],
                      fp, fr)

SinglePaneInputs ==
    \E tabs \in TabLists, a \in TabIds \cup {None}, sel \in IdLists,
       pid \in {"pane-default", "pane-1"},
       fp \in FreshProjectLists, fr \in FreshRepoGroupLists :
        ValidateInput([BaseSnapshot EXCEPT
                          !.openTabs = tabs, !.activeTabId = a,
                          !.selectedTabIds = sel,
                          !.paneLayout =
                              [panes |-> <<Pane(pid, tabs, a, sel, 100)>>,
                               focusedPaneId |-> "pane-default"]],
                      fp, fr)

\* Panes of a split window: up to two tabs, a session tab and a dashboard tab.
SplitPaneTabLists ==
    LET s == Tab("t1", "session", "p1")
        d == Tab("t2", "dashboard", None)
    IN  {<<>>, <<s>>, <<d>>, <<s, d>>}

SplitPaneContents ==
    {[tabs |-> tabs, activeTabId |-> a, selectedTabIds |-> sel] :
        tabs \in SplitPaneTabLists, a \in {None, "t1", "t2"},
        sel \in {<<>>, <<"t1", "t2">>}}

SplitInputs ==
    \E k \in 0..MaxPanes :
      \E c \in [1..k -> SplitPaneContents],
         f \in {PaneIdPool[i] : i \in 1..MaxPanes} \cup {"pane-gone"},
         fp \in {<<>>, <<Project("p1")>>} :
        ValidateInput([BaseSnapshot EXCEPT
                          !.paneLayout =
                              [panes |-> [i \in 1..k |->
                                            Pane(PaneIdPool[i], c[i].tabs,
                                                 c[i].activeTabId,
                                                 c[i].selectedTabIds, 50)],
                               focusedPaneId |-> f]],
                      fp, <<>>)

NoSnapshotInputs ==
    \E fp \in FreshProjectLists, fr \in FreshRepoGroupLists :
        ValidateInput(NullSnapshot, fp, fr)

InitValidate ==
    /\ FsIdle
    /\ RegIdle
    /\ StorIdle
    /\ SwitchIdle
    /\ ws = FreshLocalWorkspace
    /\ idb = StoreHolding(Contexts, "local", Absent)
    /\ vOut = NoResult
    /\ \/ SelectionInputs
       \/ SinglePaneInputs
       \/ SplitInputs
       \/ NoSnapshotInputs

\* Steps 4 of switchContext on the input: validateSnapshot, or the empty state.
ApplyLoaded ==
    /\ ~vOut.done
    /\ vOut' = [done |-> TRUE,
                state |-> RestoredState(vIn.snapshot, vIn.freshProjects,
                                        vIn.freshRepoGroups)]
    /\ UNCHANGED <<vIn, fsVars, swVars, regVars, storVars>>

NextValidate == ApplyLoaded

SpecValidate == InitValidate /\ [][NextValidate]_vars

(***************************************************************************)
(* SpecRegistry: the registry under connect, disconnect and registry calls *)
(***************************************************************************)

\* destroyContext(id) on a registered, non-local context: the context is
\* disposed (stopped) and leaves the map; the active id falls back to 'local'
\* when it was the one destroyed.
DestroyEffect(id) ==
    /\ ctxLife' = SetStage(ctxLife, id, regContexts[id], "stopped")
    /\ regContexts' = [regContexts EXCEPT ![id] = NotRegistered]
    /\ regActiveId' = ActiveAfterDestroy(regActiveId, id)

\* SSH_CONNECT for host h arrives.
ConnectRequest(h) ==
    /\ flow.kind = "none"
    /\ ops < MaxOps
    /\ CanConnectFrom(connState[h])
    /\ connState' = [connState EXCEPT ![h] = "connecting"]
    /\ flow' = [kind |-> "connect", host |-> h, id |-> SshContextId(h),
                pc |-> "profile", gen |-> 0,
                before |-> [contexts |-> regContexts, active |-> regActiveId]]
    /\ ops' = ops + 1
    /\ UNCHANGED <<regContexts, regActiveId, ctxLife, notified, lastDestroy>>
    /\ UNCHANGED <<fsVars, swVars, valVars, storVars>>

\* Any failure of the connect flow: the state becomes error; a context the
\* attempt created is disposed and, when registered, taken out of the map.
ConnectFailed ==
    /\ connState' = [connState EXCEPT ![flow.host] = "error"]
    /\ IF flow.gen # 0
       THEN /\ ctxLife' = SetStage(ctxLife, flow.id, flow.gen, "stopped")
            /\ regContexts' = IF regContexts[flow.id] = flow.gen
                              THEN [regContexts EXCEPT ![flow.id] = NotRegistered]
                              ELSE regContexts
       ELSE UNCHANGED <<ctxLife, regContexts>>
    /\ flow' = NoFlow
    /\ UNCHANGED <<regActiveId, notified, lastDestroy, ops>>

\* Resolve the profile, open the transport, open the channel.
ConnectIo(ok) ==
    /\ flow.kind = "connect"
    /\ flow.pc \in ConnectIoSteps
    /\ IF ok
       THEN /\ flow' = [flow EXCEPT !.pc = NextIoStep(flow.pc)]
            /\ UNCHANGED <<regContexts, regActiveId, ctxLife, connState,
                           notified, lastDestroy, ops>>
       ELSE ConnectFailed
    /\ UNCHANGED <<fsVars, swVars, valVars, storVars>>

\* Creates a new ServiceContext with the SSH provider.
ConnectCreate(ok) ==
    /\ flow.kind = "connect"
    /\ flow.pc = "create"
    /\ IF ok
       THEN /\ ctxLife' = [ctxLife EXCEPT ![flow.id] = Append(@, "created")]
            /\ flow' = [flow EXCEPT !.pc = "destroyOld",
                                    !.gen = Len(ctxLife[flow.id]) + 1]
            /\ UNCHANGED <<regContexts, regActiveId, connState, notified,
                           lastDestroy, ops>>
       ELSE ConnectFailed
    /\ UNCHANGED <<fsVars, swVars, valVars, storVars>>

\* Destroys the context already registered under the new context's id.
ConnectDestroyOld ==
    /\ flow.kind = "connect"
    /\ flow.pc = "destroyOld"
    /\ IF ConnectDestroysExisting(regContexts, flow.id)
       THEN DestroyEffect(flow.id)
       ELSE UNCHANGED <<regContexts, regActiveId, ctxLife>>
    /\ flow' = [flow EXCEPT !.pc = "register"]
    /\ UNCHANGED <<connState, notified, lastDestroy, ops>>
    /\ UNCHANGED <<fsVars, swVars, valVars, storVars>>

\* Registers the new context in the registry.
ConnectRegister(ok) ==
    /\ flow.kind = "connect"
    /\ flow.pc = "register"
    /\ IF ok /\ registerContextOk(regContexts, flow.id)
       THEN /\ regContexts' = [regContexts EXCEPT ![flow.id] = flow.gen]
            /\ flow' = [flow EXCEPT !.pc = "start"]
            /\ UNCHANGED <<regActiveId, ctxLife, connState, notified,
                           lastDestroy, ops>>
       ELSE ConnectFailed
    /\ UNCHANGED <<fsVars, swVars, valVars, storVars>>

\* Starts the new context.
ConnectStartContext(ok) ==
    /\ flow.kind = "connect"
    /\ flow.pc = "start"
    /\ IF ok
       THEN /\ ctxLife' = SetStage(ctxLife, flow.id, flow.gen, "started")
            /\ flow' = [flow EXCEPT !.pc = "switch"]
            /\ UNCHANGED <<regContexts, regActiveId, connState, notified,
                           lastDestroy, ops>>
       ELSE ConnectFailed
    /\ UNCHANGED <<fsVars, swVars, valVars, storVars>>

\* Switches the registry to the new context.
ConnectSwitch(ok) ==
    /\ flow.kind = "connect"
    /\ flow.pc = "switch"
    /\ IF ok /\ switchOk(regContexts, flow.id)
       THEN /\ regActiveId' = flow.id
            /\ flow' = [flow EXCEPT !.pc = "notify"]
            /\ UNCHANGED <<regContexts, ctxLife, connState, notified,
                           lastDestroy, ops>>
       ELSE ConnectFailed
    /\ UNCHANGED <<fsVars, swVars, valVars, storVars>>

\* Imports onContextSwitched and calls it with the new context; the
\* connection is connected.
ConnectNotify ==
    /\ flow.kind = "connect"
    /\ flow.pc = "notify"
    /\ notified' = [n |-> notified.n + 1, id |-> flow.id, gen |-> flow.gen]
    /\ connState' = [connState EXCEPT ![flow.host] = "connected"]
    /\ flow' = NoFlow
    /\ UNCHANGED <<regContexts, regActiveId, ctxLife, lastDestroy, ops>>
    /\ UNCHANGED <<fsVars, swVars, valVars, storVars>>

\* The channel of a connected host is lost.
ChannelLoss(h) ==
    /\ connState[h] = "connected"
    /\ connState' = [connState EXCEPT ![h] = "error"]
    /\ UNCHANGED <<regContexts, regActiveId, ctxLife, flow, notified,
                   lastDestroy, ops>>
    /\ UNCHANGED <<fsVars, swVars, valVars, storVars>>

\* SSH_DISCONNECT for host h arrives.
DisconnectRequest(h) ==
    /\ flow.kind = "none"
    /\ ops < MaxOps
    /\ connState[h] \in {"connected", "error"}
    /\ flow' = [kind |-> "disconnect", host |-> h, id |-> SshContextId(h),
                pc |-> "switch", gen |-> 0,
                before |-> [contexts |-> regContexts, active |-> regActiveId]]
    /\ ops' = ops + 1
    /\ UNCHANGED <<regContexts, regActiveId, ctxLife, connState, notified,
                   lastDestroy>>
    /\ UNCHANGED <<fsVars, swVars, valVars, storVars>>

\* Switches the registry back to 'local'.
DisconnectSwitch ==
    /\ flow.kind = "disconnect"
    /\ flow.pc = "switch"
    /\ regActiveId' = IF switchOk(regContexts, "local") THEN "local" ELSE regActiveId
    /\ flow' = [flow EXCEPT !.pc = "destroy"]
    /\ UNCHANGED <<regContexts, ctxLife, connState, notified, lastDestroy, ops>>
    /\ UNCHANGED <<fsVars, swVars, valVars, storVars>>

\* Destroys the SSH context.
DisconnectDestroy ==
    /\ flow.kind = "disconnect"
    /\ flow.pc = "destroy"
    /\ IF destroyPermitted(regContexts, flow.id)
       THEN /\ DestroyEffect(flow.id)
            /\ lastDestroy' = [id |-> flow.id, ok |-> TRUE]
       ELSE UNCHANGED <<regContexts, regActiveId, ctxLife, lastDestroy>>
    /\ flow' = [flow EXCEPT !.pc = "notify"]
    /\ UNCHANGED <<connState, notified, ops>>
    /\ UNCHANGED <<fsVars, swVars, valVars, storVars>>

\* Calls onContextSwitched with the local context; the connection is
\* disconnected.
DisconnectNotify ==
    /\ flow.kind = "disconnect"
    /\ flow.pc = "notify"
    /\ notified' = [n |-> notified.n + 1, id |-> DisconnectNotifiedId(flow.id),
                     gen |-> regContexts[DisconnectNotifiedId(flow.id)]]
    /\ connState' = [connState EXCEPT ![flow.host] = "disconnected"]
    /\ flow' = NoFlow
    /\ UNCHANGED <<regContexts, regActiveId, ctxLife, lastDestroy, ops>>
    /\ UNCHANGED <<fsVars, swVars, valVars, storVars>>

\* context.switch(id) from the renderer: the registry switches when the
\* target is registered, and onContextSwitched follows a switch that succeeded.
ContextSwitchRequest(id) ==
    /\ flow.kind = "none"
    /\ ops < MaxOps
    /\ regActiveId' = IF switchOk(regContexts, id) THEN id ELSE regActiveId
    /\ notified' = IF SwitchNotifies(switchOk(regContexts, id))
                   THEN [n |-> notified.n + 1, id |-> id, gen |-> regContexts[id]]
                   ELSE notified
    /\ ops' = ops + 1
    /\ UNCHANGED <<regContexts, ctxLife, connState, flow, lastDestroy>>
    /\ UNCHANGED <<fsVars, swVars, valVars, storVars>>

\* registerContext called with a new, started context of this id.
RegisterContextCall(id) ==
    /\ flow.kind = "none"
    /\ ops < MaxOps
    /\ LET g == Len(ctxLife[id]) + 1 IN
        IF registerContextOk(regContexts, id)
        THEN /\ ctxLife' = [ctxLife EXCEPT ![id] = Append(@, "started")]
             /\ regContexts' = [regContexts EXCEPT ![id] = g]
        ELSE /\ ctxLife' = [ctxLife EXCEPT ![id] = Append(@, "stopped")]
             /\ UNCHANGED regContexts
    /\ ops' = ops + 1
    /\ UNCHANGED <<regActiveId, connState, flow, notified, lastDestroy>>
    /\ UNCHANGED <<fsVars, swVars, valVars, storVars>>

\* destroyContext(id) called.
DestroyContextCall(id) ==
    /\ flow.kind = "none"
    /\ ops < MaxOps
    /\ lastDestroy' = [id |-> id, ok |-> destroyPermitted(regContexts, id)]
    /\ IF destroyPermitted(regContexts, id)
       THEN DestroyEffect(id)
       ELSE UNCHANGED <<regContexts, regActiveId, ctxLife>>
    /\ ops' = ops + 1
    /\ UNCHANGED <<connState, flow, notified>>
    /\ UNCHANGED <<fsVars, swVars, valVars, storVars>>

InitRegistry ==
    /\ FsIdle
    /\ RegIdle
    /\ StorIdle
    /\ ValIdle
    /\ SwitchIdle
    /\ ws = FreshLocalWorkspace
    /\ idb = StoreHolding(Contexts, "local", Absent)

NextRegistry ==
    \/ \E h \in Hosts : ConnectRequest(h)
    \/ \E ok \in BOOLEAN : ConnectIo(ok)
    \/ \E ok \in BOOLEAN : ConnectCreate(ok)
    \/ ConnectDestroyOld
    \/ \E ok \in BOOLEAN : ConnectRegister(ok)
    \/ \E ok \in BOOLEAN : ConnectStartContext(ok)
    \/ \E ok \in BOOLEAN : ConnectSwitch(ok)
    \/ ConnectNotify
    \/ \E h \in Hosts : ChannelLoss(h)
    \/ \E h \in Hosts : DisconnectRequest(h)
    \/ DisconnectSwitch
    \/ DisconnectDestroy
    \/ DisconnectNotify
    \/ \E id \in ContextIds : ContextSwitchRequest(id)
    \/ \E id \in ContextIds : RegisterContextCall(id)
    \/ \E id \in ContextIds : DestroyContextCall(id)

SpecRegistry == InitRegistry /\ [][NextRegistry]_vars

\* readClaudeMdFile on the remote provider, from its call to its return.
NextReader ==
    \/ ReadClaudeMdFile
    \/ \E r \in SftpErrors \cup {NoErr} : SftpReply(r)
    \/ SleepDone
    \/ ExistsAnswered
    \/ \E t \in TokenCounts : ReadAnswered(t)

SpecReader == InitFs /\ [][NextReader]_vars

(***************************************************************************)
(* SpecStorage: saveSnapshot and cleanupExpired on the store               *)
(***************************************************************************)

\* A caller invokes saveSnapshot(c, snap): the record is built with
\* Date.now() and set(key, stored) is issued.
SaveCall(c, snap) ==
    /\ Len(saves) < MaxSaves
    /\ saves' = Append(saves, [ctx |-> c, snapshot |-> snap, at |-> now])
    /\ idbQueue' = Append(idbQueue, saveSnapshotRequest(c, snap, 0))
    /\ UNCHANGED <<settled, sweep, loads>>
    /\ UNCHANGED <<storeVars, envVars, procs, lastCall, lastLoad, lastEnd>>
    /\ UNCHANGED <<fsVars, valVars, regVars>>

\* The set() of the oldest pending saveSnapshot settles; a rejection is
\* logged by saveSnapshot's catch.
SaveSettles(ok) ==
    /\ idbQueue # <<>>
    /\ Head(idbQueue).op = "set"
    /\ idb' = IF ok THEN [idb EXCEPT ![Head(idbQueue).key] = Head(idbQueue).rec]
              ELSE idb
    /\ settled' = Append(settled, ok)
    /\ idbQueue' = Tail(idbQueue)
    /\ UNCHANGED <<saves, sweep, loads>>
    /\ UNCHANGED <<storeVars, mainActive, now, procs, lastCall, lastLoad, lastEnd>>
    /\ UNCHANGED <<fsVars, valVars, regVars>>

\* `void contextStorage.cleanupExpired()`: keys() is issued.
CleanupCall ==
    /\ sweep.pc = "idle"
    /\ sweep' = [sweep EXCEPT !.pc = "keys"]
    /\ idbQueue' = Append(idbQueue, KeysReq)
    /\ UNCHANGED <<saves, settled, loads>>
    /\ UNCHANGED <<storeVars, envVars, procs, lastCall, lastLoad, lastEnd>>
    /\ UNCHANGED <<fsVars, valVars, regVars>>

\* Whether cleanupExpired rejects when keys() settled with `ok`: the outer
\* catch logs the error and returns.
cleanupThrows(ok) == FALSE

\* The inner catch: a key whose get() or del() rejected is logged and
\* skipped.
Skipping(sw, key, ok) ==
    IF ok THEN sw ELSE [sw EXCEPT !.skipped = @ \cup {key}]

\* The sweep goes on with the keys `todo`: get() of the first one is issued,
\* or the loop is over. `queue` is the request queue without the request
\* that has just settled.
SweepContinue(sw, todo, at, queue) ==
    IF todo = <<>>
    THEN /\ sweep' = [sw EXCEPT !.pc = "done", !.todo = <<>>, !.at = at]
         /\ idbQueue' = queue
    ELSE /\ sweep' = [sw EXCEPT !.pc = "get", !.todo = todo, !.at = at]
         /\ idbQueue' = Append(queue, GetReq(Head(todo), SweepProc))

\* keys() settles: the snapshot keys are filtered out and `now` is read; a
\* rejection goes to the outer catch, which logs it.
KeysSettles(ok) ==
    /\ idbQueue # <<>>
    /\ Head(idbQueue).op = "keys"
    /\ IF ok
       THEN SweepContinue(sweep, snapshotKeys(idb), now, Tail(idbQueue))
       ELSE /\ sweep' = [sweep EXCEPT !.pc = "done", !.aborted = TRUE,
                                      !.threw = cleanupThrows(ok)]
            /\ idbQueue' = Tail(idbQueue)
    /\ UNCHANGED <<saves, settled, loads>>
    /\ UNCHANGED <<storeVars, envVars, procs, lastCall, lastLoad, lastEnd>>
    /\ UNCHANGED <<fsVars, valVars, regVars>>

\* get(key) of the sweep settles: del(key) is issued for an expired record;
\* otherwise, and when get() rejected (inner catch), the next key is taken.
SweepGetSettles(ok) ==
    /\ idbQueue # <<>>
    /\ Head(idbQueue).op = "get"
    /\ Head(idbQueue).proc = SweepProc
    /\ IF ok /\ SweepDeletes(idb[Head(idbQueue).key], sweep.at)
       THEN /\ sweep' = [sweep EXCEPT !.pc = "del"]
            /\ idbQueue' = Append(Tail(idbQueue),
                   [DelReq(Head(idbQueue).key) EXCEPT !.proc = SweepProc])
       ELSE SweepContinue(Skipping(sweep, Head(idbQueue).key, ok),
                          Tail(sweep.todo), sweep.at, Tail(idbQueue))
    /\ UNCHANGED <<saves, settled, loads>>
    /\ UNCHANGED <<storeVars, envVars, procs, lastCall, lastLoad, lastEnd>>
    /\ UNCHANGED <<fsVars, valVars, regVars>>

\* del(key) of the sweep settles; a rejection is logged by the inner catch.
\* The next key is taken.
SweepDelSettles(ok) ==
    /\ idbQueue # <<>>
    /\ Head(idbQueue).op = "del"
    /\ Head(idbQueue).proc = SweepProc
    /\ idb' = IF ok THEN [idb EXCEPT ![Head(idbQueue).key] = Absent] ELSE idb
    /\ SweepContinue(Skipping(sweep, Head(idbQueue).key, ok),
                     Tail(sweep.todo), sweep.at, Tail(idbQueue))
    /\ UNCHANGED <<saves, settled, loads>>
    /\ UNCHANGED <<storeVars, mainActive, now, procs, lastCall, lastLoad, lastEnd>>
    /\ UNCHANGED <<fsVars, valVars, regVars>>

\* Records found in the store at start: written more than the TTL ago (0),
\* exactly the TTL ago (1) or just now.
InitStoredRecords ==
    {Absent} \cup {Stored(SnapMixed, t, SNAPSHOT_VERSION) : t \in {0, 1, StartTime}}

InitStorage ==
    /\ FsIdle
    /\ RegIdle
    /\ StorIdle
    /\ ValIdle
    /\ SwitchIdle
    /\ ws = FreshLocalWorkspace
    /\ \E rl \in InitStoredRecords, rs \in InitStoredRecords :
          idb = [StoreHolding(Contexts, "local", rl) EXCEPT ![StorageKey("ssh-a")] = rs]

NextStorage ==
    \/ \E c \in Contexts, snap \in {SnapMixed, SnapStale} : SaveCall(c, snap)
    \/ \E ok \in BOOLEAN : SaveSettles(ok)
    \/ CleanupCall
    \/ \E ok \in BOOLEAN : KeysSettles(ok)
    \/ \E ok \in BOOLEAN : SweepGetSettles(ok)
    \/ \E ok \in BOOLEAN : SweepDelSettles(ok)

SpecStorage == InitStorage /\ [][NextStorage]_vars

\* A caller invokes loadSnapshot(c): get(key) is issued. The request carries
\* the number of the call.
LoadCall(c) ==
    /\ Len(loads) < MaxLoads
    /\ loads' = Append(loads, c)
    /\ idbQueue' = Append(idbQueue, GetReq(StorageKey(c), Len(loads) + 1))
    /\ UNCHANGED <<saves, settled, sweep>>
    /\ UNCHANGED <<storeVars, envVars, procs, lastCall, lastLoad, lastEnd>>
    /\ UNCHANGED <<fsVars, valVars, regVars>>

\* get(key) of a loadSnapshot call settles and loadSnapshot runs to its
\* return: the TTL and version checks, `void deleteSnapshot(contextId)` up to
\* its del(key), the value returned. A rejected get is caught: null.
LoadSettles(ok) ==
    /\ idbQueue # <<>>
    /\ Head(idbQueue).op = "get"
    /\ Head(idbQueue).proc \in DOMAIN loads
    /\ LET c == loads[Head(idbQueue).proc]
           stored == IF ok THEN idb[Head(idbQueue).key] ELSE ReadFailed
       IN  /\ lastLoad' = [ctx |-> c, stored |-> stored, at |-> now,
                           result |-> loadSnapshotResult(stored, now)]
           /\ idbQueue' = Tail(idbQueue) \o loadSnapshotDeletes(c, stored, now)
    /\ UNCHANGED storVars
    /\ UNCHANGED <<storeVars, envVars, procs, lastCall, lastEnd>>
    /\ UNCHANGED <<fsVars, valVars, regVars>>

\* saveSnapshot and loadSnapshot called directly while time passes: by the
\* TTL exactly, or by one millisecond more. The snapshot saved is another one
\* than those found in the store at start.
NextRoundTrip ==
    \/ \E c \in Contexts : SaveCall(c, SnapStale)
    \/ \E ok \in BOOLEAN : SaveSettles(ok)
    \/ \E c \in Contexts : LoadCall(c)
    \/ \E ok \in BOOLEAN : LoadSettles(ok)
    \/ \E ok \in BOOLEAN : IdbDel(ok)
    \/ \E d \in {SNAPSHOT_TTL_MS, SNAPSHOT_TTL_MS + 1} : Tick(d)

\* At start the key of the local context is empty or holds an expired record.
InitRoundTrip ==
    /\ FsIdle
    /\ RegIdle
    /\ StorIdle
    /\ ValIdle
    /\ SwitchIdle
    /\ ws = FreshLocalWorkspace
    /\ \E r \in {Absent, Stored(SnapMixed, 0, SNAPSHOT_VERSION)} :
          idb = StoreHolding(Contexts, "local", r)

SpecRoundTrip == InitRoundTrip /\ [][NextRoundTrip]_vars

(***************************************************************************)
(* Properties of the remote provider (checked under SpecFs)                *)
(***************************************************************************)

RetryOps == {"readFile", "stat", "readdir"}

IsTransientReply(r) == r # NoErr /\ classifySftpError(r) = "transient"
IsTerminalReply(r) == r # NoErr /\ classifySftpError(r) \in {"not_found", "permanent"}

AllTransient == replies # <<>> /\ \A i \in DOMAIN replies : IsTransientReply(replies[i])

\* C1: for readFile, stat and readdir, when the SFTP call reports a
\* transient-classified error on every attempt, the call is made exactly 3
\* times, and the error is surfaced to the caller only after the third (it is
\* the error of the third attempt).
C1_TransientOnEveryAttempt ==
    (fsOp \in RetryOps /\ AllTransient) =>
        /\ Len(replies) <= 3
        /\ Len(replies) < 3 => fsOutcome = NoOutcome /\ fsPc \in {"sleep", "call"}
        /\ Len(replies) = 3 =>
              /\ fsPc \in {"done", "idle"}
              /\ fsOutcome = [kind |-> "throw", err |-> replies[3]]

C1_Witness ==
    /\ fsOp = "readdir"
    /\ fsPc = "done"
    /\ AllTransient
    /\ Len(replies) = 3
    /\ fsOutcome.kind = "throw"

\* C2: exists(path) never throws; it returns true when stat succeeds, true
\* when stat fails with a transient error after its 3 attempts, false when
\* stat fails as not_found, and false when stat fails as permanent.
C2_ExistsPolicy ==
    (fsOp = "exists" /\ fsPc = "done") =>
        LET last == replies[Len(replies)] IN
        /\ fsOutcome.kind \in {"true", "false"}
        /\ last = NoErr => fsOutcome.kind = "true"
        /\ IsTransientReply(last) => fsOutcome.kind = "true" /\ Len(replies) = 3
        /\ (last # NoErr /\ classifySftpError(last) = "not_found") =>
              fsOutcome.kind = "false"
        /\ (last # NoErr /\ classifySftpError(last) = "permanent") =>
              fsOutcome.kind = "false"

C2_Witness ==
    /\ fsOp = "exists"
    /\ fsPc = "done"
    /\ AllTransient
    /\ Len(replies) = 3
    /\ fsOutcome.kind = "true"

\* C3: for readFile, stat and readdir, an error classified not_found or
\* permanent on any attempt is thrown to the caller at once: it is the last
\* attempt, the operation has ended by throwing that error, and no sleep
\* follows it (the sleeps made are those after the earlier attempts). A
\* not_found on the first attempt thus means one SFTP call and zero sleeps.
C3_TerminalErrorsThrownAtOnce ==
    fsOp \in RetryOps =>
        \A i \in DOMAIN replies :
            IsTerminalReply(replies[i]) =>
                /\ i = Len(replies)
                /\ fsPc \in {"done", "idle"}
                /\ fsOutcome = [kind |-> "throw", err |-> replies[i]]
                /\ Len(sleeps) = i - 1

C3_Witness ==
    /\ fsOp = "readFile"
    /\ fsPc = "done"
    /\ Len(replies) = 1
    /\ classifySftpError(replies[1]) = "not_found"
    /\ replies[1] # NoErr
    /\ sleeps = <<>>
    /\ fsOutcome = [kind |-> "throw", err |-> replies[1]]

(***************************************************************************)
(* Properties of context switching (checked under Spec)                    *)
(***************************************************************************)

InFlight == {p \in Procs : procs[p].pc # "idle"}

\* C4: while one switchContext is in flight, a second request is rejected or
\* queued, so that never are two invocations of switchContext between their
\* first step and their end at the same time.
C4_OneSwitchAtATime == Cardinality(InFlight) <= 1

\* The step in which invocation p of switchContext ends in its catch block.
SwitchFails(p) ==
    /\ procs[p].pc # "idle"
    /\ procs'[p].pc = "idle"
    /\ lastEnd'.how = "failed"

\* C5: when a switch attempt fails at any step, then afterwards the active
\* context id is the one that was active when the attempt began,
\* isContextSwitching is false and targetContextId is cleared.
C5_FailedSwitchKeepsActiveContext ==
    [][\A p \in Procs :
          SwitchFails(p) =>
              /\ activeContextId' = procs[p].from
              /\ isContextSwitching' = FALSE
              /\ targetContextId' = None]_vars

\* C6: a request to switch to the context that is already active is a no-op:
\* no snapshot write (no IndexedDB request), no main-process switch, no
\* fetch (no invocation leaves idle), and no store field changes, the flag
\* isContextSwitching and targetContextId included.
C6_SwitchToActiveIsNoOp ==
    [][(lastCall'.n = lastCall.n + 1 /\ lastCall'.target = activeContextId) =>
          UNCHANGED <<storeVars, envVars, procs, idbQueue, lastLoad, lastEnd>>]_vars

C6_Witness ==
    /\ lastCall.n = 1
    /\ lastCall.target = activeContextId
    /\ InFlight = {}
    /\ idbQueue = <<>>
    /\ lastEnd = NoEnd
    /\ ~isContextSwitching
    /\ targetContextId = None

\* The step in which the loadSnapshot of invocation p returns.
LoadReturns(p) ==
    /\ procs[p].pc = "loadCheck"
    /\ procs'[p].pc = "idle"

\* The record a load read was present and older than 5 minutes when the
\* load checked it.
ReadExpired(load) ==
    /\ load.stored.present
    /\ ~load.stored.failed
    /\ load.at - load.stored.timestamp > 5 * 60 * 1000

\* The record a load read was present with another version than the current.
ReadOtherVersion(load) ==
    /\ load.stored.present
    /\ ~load.stored.failed
    /\ load.stored.version # 1

FreshProjectIds == {vIn.freshProjects[i].id : i \in DOMAIN vIn.freshProjects}

FreshWorktreeIds ==
    {w.id : w \in UNION {Range(g.worktrees) : g \in Range(vIn.freshRepoGroups)}}

RefersToFresh(tab) ==
    tab.projectId = None \/ tab.projectId \in FreshProjectIds \cup FreshWorktreeIds

Validated == vOut.done /\ ~IsNull(vIn.snapshot)

EveryPaneEmptied ==
    \A pane \in Range(vIn.snapshot.paneLayout.panes) :
        \A tab \in Range(pane.tabs) : ~RefersToFresh(tab)

\* C10: the state switchContext applies, after validateSnapshot on the
\* restore path and the empty state otherwise, has a pane layout of at least
\* one pane; when filtering empties every pane of the snapshot, the layout
\* is exactly one default pane with no tabs.
C10_AtLeastOnePane ==
    vOut.done =>
        LET panes == vOut.state.paneLayout.panes IN
        /\ Len(panes) >= 1
        /\ (~IsNull(vIn.snapshot) /\ EveryPaneEmptied) =>
              /\ Len(panes) = 1
              /\ panes[1].id = "pane-default"
              /\ panes[1].tabs = <<>>
              /\ panes[1].activeTabId = None
              /\ panes[1].selectedTabIds = <<>>

C10_Witness ==
    /\ Validated
    /\ Len(vIn.snapshot.paneLayout.panes) >= 2
    /\ \A pane \in Range(vIn.snapshot.paneLayout.panes) : Len(pane.tabs) > 0
    /\ EveryPaneEmptied
    /\ Len(vOut.state.paneLayout.panes) = 1
    /\ vOut.state.paneLayout.panes[1].tabs = <<>>

(***************************************************************************)
(* Properties of the failure paths of a switch (checked under Spec)        *)
(***************************************************************************)

\* The load that has just returned failed to read the record (get rejected)
\* or returned a snapshot that validateSnapshot cannot process.
SnapshotUnusable(load) ==
    \/ load.stored.failed
    \/ ~IsNull(load.result) /\ "paneLayout" \notin DOMAIN load.result

\* The empty workspace state carrying the given fresh lists.
IsEmptyStateWith(state, freshProjects, freshRepoGroups) ==
    /\ state.projects = freshProjects
    /\ state.repositoryGroups = freshRepoGroups
    /\ state.openTabs = <<>>
    /\ state.activeTabId = None
    /\ state.selectedTabIds = <<>>
    /\ state.selectedProjectId = None
    /\ state.selectedRepositoryId = None
    /\ state.selectedWorktreeId = None
    /\ state.activeProjectId = None
    /\ Len(state.paneLayout.panes) = 1
    /\ state.paneLayout.panes[1].tabs = <<>>

\* C11: a failure while reading or validating the target context's stored
\* snapshot does not fail the switch: the empty workspace state (with the
\* fresh lists) is applied and the switch completes with the target as the
\* active context.
C11_SnapshotFailureDegradesToEmpty ==
    [][\A p \in Procs :
          (LoadReturns(p) /\ SnapshotUnusable(lastLoad')) =>
              /\ lastEnd'.how = "done"
              /\ activeContextId' = procs[p].target
              /\ IsEmptyStateWith(ws', procs[p].freshProjects,
                                  procs[p].freshRepoGroups)]_vars

\* The step in which IndexedDB executes the set of a saveSnapshot and the
\* write does not land.
SaveWriteFails ==
    /\ idbQueue # <<>>
    /\ Head(idbQueue).op = "set"
    /\ idbQueue' = Tail(idbQueue)
    /\ idb'[Head(idbQueue).key] # Head(idbQueue).rec

\* C12: a failed write of saveSnapshot is swallowed: the store is left as it
\* was, and the switch that issued it is not failed but goes on to its next
\* step (the main-process switch) with the switch still in progress.
C12_FailedSaveDoesNotBlockSwitch ==
    [][SaveWriteFails =>
          LET p == Head(idbQueue).proc IN
          /\ idb' = idb
          /\ procs'[p].pc = "mainSwitch"
          /\ procs'[p].target = procs[p].target
          /\ lastEnd' = lastEnd
          /\ UNCHANGED storeVars]_vars

\* A first switch from 'local' has completed although its save did not land:
\* there is no record under the outgoing context's key.
C12_Witness ==
    /\ lastCall.n = 1
    /\ lastEnd.how = "done"
    /\ lastEnd.from = "local"
    /\ activeContextId = lastEnd.target
    /\ ~idb[StorageKey("local")].present

(***************************************************************************)
(* The order of the steps of a switch (checked under SpecMulti)            *)
(***************************************************************************)

\* Invocation p moves from pc `a` to pc `b` in this step.
Moves(p, a, b) == procs[p].pc = a /\ procs'[p].pc = b

\* The steps an invocation may take, in their order.
SwitchOrder ==
    {<<"idle", "save">>, <<"save", "mainSwitch">>, <<"mainSwitch", "fetch">>,
     <<"fetch", "loadGet">>, <<"loadGet", "loadCheck">>, <<"loadCheck", "idle">>}

\* The steps at which a switch that fails is abandoned by its catch block.
SwitchAborts == {<<"mainSwitch", "idle">>, <<"fetch", "idle">>}

\* C13: a successful switch from the active context A to another context B
\* without usable stored snapshot performs, in this order: save A's snapshot
\* under A's key, switch the main process to B, fetch the fresh lists from B,
\* load B's snapshot (none); it then applies the empty workspace state with
\* exactly those lists and ends with B active and the flag false.
C13_SwitchStepsInOrder ==
    [][\A p \in Procs :
          /\ procs'[p].pc # procs[p].pc =>
                <<procs[p].pc, procs'[p].pc>> \in SwitchOrder \cup SwitchAborts
          /\ Moves(p, "idle", "save") =>
                /\ procs'[p].from = activeContextId
                /\ procs'[p].target # activeContextId
                /\ Len(idbQueue') = Len(idbQueue) + 1
                /\ idbQueue'[Len(idbQueue')].op = "set"
                /\ idbQueue'[Len(idbQueue')].key = StorageKey(activeContextId)
                /\ idbQueue'[Len(idbQueue')].rec.snapshot.openTabs = ws.openTabs
          /\ Moves(p, "mainSwitch", "fetch") => mainActive' = procs[p].target
          /\ Moves(p, "fetch", "loadGet") =>
                /\ procs'[p].freshProjects = FreshProjects(procs[p].target)
                /\ procs'[p].freshRepoGroups = FreshRepoGroups(procs[p].target)
                /\ idbQueue'[Len(idbQueue')] = GetReq(StorageKey(procs[p].target), p)
          /\ (Moves(p, "loadCheck", "idle") /\ lastEnd'.how = "done"
                /\ IsNull(lastLoad'.result)) =>
                /\ IsEmptyStateWith(ws', procs[p].freshProjects,
                                    procs[p].freshRepoGroups)
                /\ activeContextId' = procs[p].target
                /\ isContextSwitching' = FALSE]_vars

(***************************************************************************)
(* Properties of the context registry and the SSH connection (checked      *)
(* under SpecRegistry)                                                     *)
(***************************************************************************)

\* The context object the registry's active id names: its lifecycle stage.
ActiveStage ==
    IF HasContext(regContexts, regActiveId)
    THEN ctxLife[regActiveId][regContexts[regActiveId]]
    ELSE "unregistered"

PastDestroyOld ==
    flow.kind = "connect" /\ flow.pc \in {"register", "start", "switch", "notify"}

\* The contexts of this id that are started, by generation.
StartedContexts(id) == {g \in DOMAIN ctxLife[id] : ctxLife[id][g] = "started"}

\* C15: connecting to host H while a context "ssh-H" is registered destroys
\* that context (it is disposed: stopped and out of the registry) before the
\* new context is registered, hence before it becomes active; and at no
\* point are two contexts of one SSH id alive in the registry: at most one
\* context of an id is started, and it is the one the registry holds.
C15_OldContextDestroyedFirst ==
    /\ PastDestroyOld =>
          \A g \in 1..(flow.gen - 1) : ctxLife[flow.id][g] = "stopped"
    /\ \A id \in SshContextIds :
          /\ Cardinality(StartedContexts(id)) <= 1
          /\ \A g \in StartedContexts(id) : regContexts[id] = g

\* A connect to a host whose context was registered when it began has made
\* its new context the active one.
C15_Witness ==
    /\ flow.kind = "connect"
    /\ flow.pc = "notify"
    /\ HasContext(flow.before.contexts, flow.id)
    /\ regActiveId = flow.id
    /\ regContexts[flow.id] = flow.gen
    /\ ctxLife[flow.id][flow.before.contexts[flow.id]] = "stopped"

\* The step is the connect flow ending in a failure of one of its steps.
ConnectFails == flow.kind = "connect" /\ flow.pc # "notify" /\ flow'.kind = "none"

Stops(id, g) ==
    /\ g \in DOMAIN ctxLife[id]
    /\ ctxLife[id][g] # "stopped"
    /\ ctxLife'[id][g] = "stopped"

C18_LocalContextPersists ==
    /\ regContexts["local"] = 1
    /\ ctxLife["local"][1] = "started"
    /\ lastDestroy.ok => lastDestroy.id # "local"

\* Three requests were made: a host was connected and disconnected again
\* (two calls of onContextSwitched after the one at startup; its context is
\* stopped), and then destroyContext('local') was called and refused.
C18_Witness ==
    /\ lastDestroy.id = "local"
    /\ ~lastDestroy.ok
    /\ ops = 3
    /\ notified.n = 3
    /\ \E h \in Hosts :
          /\ connState[h] = "disconnected"
          /\ ctxLife[SshContextId(h)] = <<"stopped">>

\* The step calls onContextSwitched.
Notifies == notified' # notified

\* C19: onContextSwitched is called only for a context the registry's active
\* id names (in the handlers the id names it before the call, the switch
\* being an earlier step), that context being registered and started; a
\* connect that completes has called it with the new remote context and a
\* disconnect that completes with the local context; a switch that did not
\* succeed (the active id did not become the target) is followed by no call.
C19_NotifiedAfterSuccessfulSwitch ==
    [][/\ Notifies =>
            /\ notified'.n = notified.n + 1
            /\ regActiveId' = notified'.id
            /\ regContexts'[notified'.id] = notified'.gen
            /\ ActiveStage' = "started"
            /\ flow.kind # "none" => regActiveId = notified'.id
       /\ \A h \in Hosts :
            /\ (connState[h] # "connected" /\ connState'[h] = "connected") =>
                  /\ Notifies
                  /\ notified'.id = SshContextId(h)
                  /\ notified'.gen = flow.gen
            /\ (connState[h] # "disconnected" /\ connState'[h] = "disconnected") =>
                  /\ Notifies
                  /\ notified'.id = "local"
       /\ (flow.kind = "connect" /\ flow.pc = "switch" /\ regActiveId' = flow.id) =>
            flow'.pc = "notify"]_vars

\* A connect and then a disconnect have completed: onContextSwitched was
\* called with the remote context and then with the local one.
C19_Witness ==
    /\ ops = 2
    /\ notified = [n |-> 3, id |-> "local", gen |-> 1]
    /\ regActiveId = "local"
    /\ \E h \in Hosts : ctxLife[SshContextId(h)] = <<"stopped">>

\* The step changes the connection state of host h from a to b.
StateMoves(h, a, b) == connState[h] = a /\ connState'[h] = b

SucceedsOnThird ==
    /\ fsOp \in RetryOps
    /\ Len(replies) = 3
    /\ IsTransientReply(replies[1])
    /\ IsTransientReply(replies[2])
    /\ replies[3] = NoErr

\* C21: the sleep after failed attempt number i lasts i x 75 ms; an operation
\* that gets a transient error on attempts 1 and 2 and succeeds on attempt 3
\* returns the result to its caller after exactly two sleeps, of 75 ms and
\* then 150 ms.
C21_LinearBackoff ==
    /\ \A i \in DOMAIN sleeps : sleeps[i] = i * 75
    /\ SucceedsOnThird => fsOutcome.kind = "value" /\ sleeps = <<75, 150>>

\* stat failed twice with a transient error and then succeeded.
C21_Witness ==
    /\ SucceedsOnThird
    /\ fsOp = "stat"
    /\ fsPc = "done"
    /\ fsOutcome.kind = "value"

\* C22: createReadStream is wrapped in the retry loop like readFile, stat
\* and readdir: when its setup fails with a transient-classified error, the
\* channel call is made again (up to 3 attempts), so a createReadStream that
\* is over and whose first channel call failed with a transient error has
\* made a second one.
C22_CreateReadStreamRetried ==
    (fsOp = "createReadStream" /\ fsPc = "done" /\ IsTransientReply(replies[1])) =>
        Len(replies) > 1

\* The step is a call of createReadStream, up to its return.
CreateReadStreamReturns == fsPc = "idle" /\ fsOp' = "createReadStream" /\ fsPc' # "idle"

\* C23: createReadStream never throws synchronously: whether or not the
\* channel call threw during setup, the caller gets a stream that is not in
\* the error state; after a setup throw the stream enters the error state
\* only in a later step (the next tick), and carries the setup error.
C23_StreamErrorsAsynchronously ==
    [][/\ CreateReadStreamReturns => fsOutcome'.kind = "stream"
       /\ (/\ fsOp = "createReadStream"
           /\ replies[1] # NoErr
           /\ fsOutcome'.kind = "streamError"
           /\ fsOutcome.kind # "streamError") =>
              /\ fsPc = "tick"
              /\ fsOutcome.kind = "stream"
              /\ fsOutcome'.err = replies[1]]_vars

\* The channel call threw during setup, the caller holds the returned stream
\* and the stream has not errored yet.
C23_Witness ==
    /\ fsOp = "createReadStream"
    /\ fsPc = "tick"
    /\ replies[1] # NoErr
    /\ fsOutcome.kind = "stream"

\* The code of an error as the claim reads it: the digit of a numeric code,
\* the text of a string code, nothing when there is no code.
CodeText(e) ==
    CASE e.t = "num" -> NumToString(e.n)
      [] e.t = "str" -> e.s
      [] OTHER -> ""

\* The kind the classification table gives to a code.
KindByTable(code) ==
    CASE code \in {"2", "ENOENT"} -> "not_found"
      [] code \in {"4", "EAGAIN", "ECONNRESET", "ETIMEDOUT", "EPIPE"} -> "transient"
      [] OTHER -> "permanent"

\* C24: classification is total and gives every error exactly one kind: code
\* 2 or ENOENT is not_found; code 4, EAGAIN, ECONNRESET, ETIMEDOUT or EPIPE
\* is transient; every other code, and an error without a code, is
\* permanent. Checked on every error a channel call has reported.
C24_ClassificationTable ==
    \A i \in DOMAIN replies :
        replies[i] # NoErr =>
            /\ classifySftpError(replies[i]) \in {"not_found", "transient", "permanent"}
            /\ classifySftpError(replies[i]) = KindByTable(CodeText(replies[i]))
            /\ isNotFoundError(replies[i]) => ~isRetryableError(replies[i])

\* An operation has seen a transient error and then a not-found error, which
\* it threw.
C24_Witness ==
    /\ Len(replies) = 2
    /\ classifySftpError(replies[1]) = "transient"
    /\ replies[2] = NumErr(2)
    /\ fsOutcome.kind = "throw"

\* The operation used its whole retry budget and its last attempt failed too.
BudgetExhausted ==
    /\ fsOp \in RetryOps
    /\ Len(replies) = MAX_RETRIES
    /\ replies[MAX_RETRIES] # NoErr

\* C25: when readFile, stat or readdir has used up its retry budget, what it
\* throws to the caller is the very error the channel reported on the last
\* attempt, code included, and not an earlier attempt's error or a
\* replacement error.
C25_LastErrorSurfaced ==
    BudgetExhausted =>
        /\ fsOutcome.kind = "throw"
        /\ fsOutcome.err = replies[MAX_RETRIES]
        /\ getErrorCode(fsOutcome.err) = getErrorCode(replies[MAX_RETRIES])

\* Three attempts failed with three different transient errors; the third
\* one was thrown.
C25_Witness ==
    /\ BudgetExhausted
    /\ fsPc = "done"
    /\ replies = <<StrErr("EAGAIN"), NumErr(4), StrErr("ETIMEDOUT")>>
    /\ fsOutcome = [kind |-> "throw", err |-> StrErr("ETIMEDOUT")]

\* The sum of the elements of a sequence of numbers.
RECURSIVE SumOf(_)
SumOf(seq) == IF seq = <<>> THEN 0 ELSE Head(seq) + SumOf(Tail(seq))

\* C26: every readFile, stat, readdir and exists call terminates when each
\* channel call completes: it makes at most 3 attempts and sleeps at most
\* twice (75 ms + 150 ms = 225 ms at most), and a call in progress always
\* ends with a result returned or an error thrown.
C26_OperationsTerminate ==
    /\ [](fsOp \in FsOps =>
            /\ Len(replies) <= 3
            /\ attempt <= 3
            /\ Len(sleeps) <= 2
            /\ SumOf(sleeps) <= 225)
    /\ (fsOp \in FsOps /\ fsPc \in {"call", "sleep"})
          ~> (fsPc = "done" /\ fsOutcome.kind \in {"value", "throw", "true", "false"})

\* exists has ended after three attempts and two sleeps.
C26_Witness ==
    /\ fsOp = "exists"
    /\ fsPc = "done"
    /\ Len(replies) = 3
    /\ sleeps = <<75, 150>>
    /\ fsOutcome.kind \in {"true", "false"}

(***************************************************************************)
(* Properties of the snapshot store (checked under SpecStorage)            *)
(***************************************************************************)

\* A step in which the set() of a saveSnapshot call settles.
SaveSettling == Len(settled') = Len(settled) + 1

\* The saveSnapshot call whose set() settles in this step: set() requests
\* settle in the order the calls were made.
SettlingSave == saves[Len(settled')]

\* The store after the step holds, under the key of the call,
\* {snapshot, timestamp = the call's Date.now(), version = SNAPSHOT_VERSION},
\* and every other key is as before.
SaveWritten ==
    /\ idb'[StorageKey(SettlingSave.ctx)] =
           Stored(SettlingSave.snapshot, SettlingSave.at, SNAPSHOT_VERSION)
    /\ StorageKey(SettlingSave.ctx) =
           "context-snapshot:" \o SettlingSave.ctx
    /\ \A k \in DOMAIN idb \ {StorageKey(SettlingSave.ctx)} : idb'[k] = idb[k]

\* C27 as stated: every saveSnapshot call leaves exactly one record under
\* "context-snapshot:" + contextId, equal to {snapshot, timestamp = now,
\* version = current schema version}, replacing any prior record, and changes
\* no record under any other key.
C27_SaveAlwaysWrites == [][SaveSettling => SaveWritten]_vars

\* C27 amended: a saveSnapshot call whose write succeeds leaves exactly that
\* record under "context-snapshot:" + contextId, replacing any prior record,
\* and changes no other key; a call whose write fails leaves the whole store
\* unchanged.
C27_SaveWritesOrLeaves ==
    [][SaveSettling =>
          IF settled'[Len(settled')] THEN SaveWritten ELSE idb' = idb]_vars

\* A successful save has replaced a prior record of another snapshot under
\* the key of a remote context, with the other keys still populated.
C27_Witness ==
    /\ Len(settled) = 2
    /\ settled[1] /\ settled[2]
    /\ saves[1].ctx = "ssh-a" /\ saves[2].ctx = "ssh-a"
    /\ saves[1].snapshot # saves[2].snapshot
    /\ idb[StorageKey("ssh-a")] = Stored(saves[2].snapshot, saves[2].at, SNAPSHOT_VERSION)
    /\ idb[StorageKey("local")].present

\* A record whose age, at the time the sweep read the clock, exceeds the TTL.
ExpiredAt(stored, t) == stored.present /\ t - stored.timestamp > SNAPSHOT_TTL_MS

\* After a sweep that got the key list: no expired record is left under a
\* snapshot key, unless reading or deleting that key failed.
SweepDeletedExpired ==
    (sweep.pc = "done" /\ ~sweep.aborted) =>
        \A k \in DOMAIN idb :
            (IsSnapshotKey(k) /\ k \notin sweep.skipped) =>
                ~ExpiredAt(idb[k], sweep.at)

\* cleanupExpired never rejects.
SweepNeverThrows == ~sweep.threw

\* A step of the sweep removes only records under the snapshot prefix whose
\* age exceeds the TTL.
SweepKeepsTheRest ==
    (idbQueue # <<>> /\ Head(idbQueue).proc = SweepProc) =>
        \A k \in DOMAIN idb :
            (idb[k].present /\ ~idb'[k].present) =>
                IsSnapshotKey(k) /\ ExpiredAt(idb[k], sweep.at)

\* C28: cleanupExpired deletes every stored record under the snapshot key
\* prefix whose age exceeds the TTL, leaves every non-expired record and
\* every key without the prefix in place, continues with the remaining keys
\* when reading or deleting one key fails, and never throws.
C28_SweepContract ==
    /\ [](SweepDeletedExpired /\ SweepNeverThrows)
    /\ [][SweepKeepsTheRest]_vars

(***************************************************************************)
(* Further properties of validateSnapshot (checked under SpecValidate)     *)
(***************************************************************************)

\* The snapshot named an active tab, and no restored tab has its id.
ActiveTabDropped ==
    /\ vIn.snapshot.activeTabId # None
    /\ \A i \in DOMAIN vOut.state.openTabs :
          vOut.state.openTabs[i].id # vIn.snapshot.activeTabId

RestoredTabIds == {vOut.state.openTabs[i].id : i \in DOMAIN vOut.state.openTabs}

\* C29: when the snapshot's active tab is dropped by filtering, the restored
\* activeTabId is the id of the first remaining valid tab, or none when no tab
\* remains; in every case the restored activeTabId is none or the id of a
\* restored tab, and the restored selectedTabIds hold only ids of restored
\* tabs.
C29_ActiveTabFallsBack ==
    Validated =>
        /\ ActiveTabDropped =>
              IF vOut.state.openTabs = <<>>
              THEN vOut.state.activeTabId = None
              ELSE vOut.state.activeTabId = vOut.state.openTabs[1].id
        /\ vOut.state.activeTabId \in RestoredTabIds \cup {None}
        /\ Range(vOut.state.selectedTabIds) \subseteq RestoredTabIds

\* The active tab of the snapshot was its first tab and was filtered out, the
\* second tab survived and became active, and a selected id was dropped too.
C29_Witness ==
    /\ Validated
    /\ Len(vIn.snapshot.openTabs) = 2
    /\ vIn.snapshot.activeTabId = vIn.snapshot.openTabs[1].id
    /\ ActiveTabDropped
    /\ Len(vOut.state.openTabs) = 1
    /\ vOut.state.activeTabId = vIn.snapshot.openTabs[2].id
    /\ Len(vIn.snapshot.selectedTabIds) = 2
    /\ Len(vOut.state.selectedTabIds) = 1

FreshRepositoryIds == {vIn.freshRepoGroups[i].id : i \in DOMAIN vIn.freshRepoGroups}

\* C30: validateSnapshot carries selectedRepositoryId over from the snapshot
\* unchanged, whether or not it appears in the fresh data, while
\* selectedProjectId and selectedWorktreeId are reset to none when absent from
\* the fresh data.
C30_RepositoryIdCarriedOver ==
    Validated =>
        /\ vOut.state.selectedRepositoryId = vIn.snapshot.selectedRepositoryId
        /\ vIn.snapshot.selectedProjectId \notin FreshProjectIds =>
              vOut.state.selectedProjectId = None
        /\ vIn.snapshot.selectedWorktreeId \notin FreshWorktreeIds =>
              vOut.state.selectedWorktreeId = None

\* A repository id, a project id and a worktree id that are all absent from
\* non-empty fresh data: the first is restored, the other two are reset.
C30_Witness ==
    /\ Validated
    /\ FreshProjectIds # {} /\ FreshRepositoryIds # {} /\ FreshWorktreeIds # {}
    /\ vIn.snapshot.selectedRepositoryId # None
    /\ vIn.snapshot.selectedRepositoryId \notin FreshRepositoryIds
    /\ vOut.state.selectedRepositoryId = vIn.snapshot.selectedRepositoryId
    /\ vIn.snapshot.selectedProjectId # None
    /\ vIn.snapshot.selectedProjectId \notin FreshProjectIds
    /\ vOut.state.selectedProjectId = None
    /\ vIn.snapshot.selectedWorktreeId # None
    /\ vIn.snapshot.selectedWorktreeId \notin FreshWorktreeIds
    /\ vOut.state.selectedWorktreeId = None

(***************************************************************************)
(* File types, disposal and CLAUDE.md reading (checked under SpecFs)       *)
(***************************************************************************)

\* stat or readdir has returned its value to the caller.
ReturnedEntries ==
    fsPc = "done" /\ fsOutcome.kind = "value" /\ fsOp \in {"stat", "readdir"}

\* The file type bits of a mode, read off its octal digits: the mode without
\* its twelve permission bits, which is 8 for a regular file and 4 for a
\* directory.
TypeDigits(mode) == (mode \div 4096) % 16

\* C31: for stat results and readdir entries alike, isFile() is true exactly
\* when the type bits of the mode are 0o100000 and isDirectory() exactly when
\* they are 0o040000, never both; the creation time reported equals the
\* modification time reported.
C31_FileTypeFromMode ==
    ReturnedEntries =>
        \A i \in DOMAIN fsValue :
            /\ fsValue[i].isFile <=> TypeDigits(fsValue[i].mode) = 8
            /\ fsValue[i].isDirectory <=> TypeDigits(fsValue[i].mode) = 4
            /\ ~(fsValue[i].isFile /\ fsValue[i].isDirectory)
            /\ fsValue[i].birthtimeMs = fsValue[i].mtimeMs

\* readdir returned a socket (both type bits of file and directory set, so
\* neither a file nor a directory) next to a regular file, after a retry.
C31_Witness ==
    /\ ReturnedEntries
    /\ fsOp = "readdir"
    /\ Len(replies) = 2
    /\ Len(fsValue) = 2
    /\ fsValue[1].mode = 49645
    /\ ~fsValue[1].isFile /\ ~fsValue[1].isDirectory
    /\ fsValue[2].isFile /\ ~fsValue[2].isDirectory
    /\ fsValue[2].birthtimeMs = 1700000

\* A step in which dispose() is called and returns.
DisposeReturns == fsPc = "idle" /\ fsOp' = "dispose"

\* C32: dispose() never throws: it attempts to close the channel once and
\* swallows any error raised by the close.
C32_DisposeNeverThrows ==
    [][DisposeReturns =>
          /\ fsOutcome'.kind = "void"
          /\ fsOutcome'.err = NoErr
          /\ Len(replies') = 1 /\ attempt' = 1
          /\ fsPc' = "done"]_vars

\* dispose() has returned although closing the channel raised an error.
C32_Witness ==
    /\ fsOp = "dispose"
    /\ fsPc = "done"
    /\ replies = <<StrErr("ECONNRESET")>>
    /\ fsOutcome.kind = "void"

\* readClaudeMdFile has returned.
ReaderDone == reader.pc = "done"

\* readFile was called and ended with a success reply of the server.
ContentRead ==
    /\ reader.readReplies # <<>>
    /\ reader.readReplies[Len(reader.readReplies)] = NoErr

\* exists() answered true because every attempt of stat failed transiently.
OptimisticExists ==
    /\ Len(reader.statReplies) = MAX_RETRIES
    /\ \A i \in DOMAIN reader.statReplies :
          reader.statReplies[i] # NoErr
          /\ classifySftpError(reader.statReplies[i]) = "transient"

\* C39: readClaudeMdFile never throws and reports exists = true only when the
\* file's content was actually read; when exists() answers true because stat
\* failed transiently and the following readFile fails, the result is
\* exists = false with charCount 0 and estimatedTokens 0.
C39_ReaderIsHonest ==
    ReaderDone =>
        /\ ~reader.result.threw
        /\ reader.result.exists =>
              ContentRead /\ reader.result.charCount = Len(reader.content)
        /\ (OptimisticExists /\ reader.readReplies # <<>> /\ ~ContentRead) =>
              /\ ~reader.result.exists
              /\ reader.result.charCount = 0
              /\ reader.result.estimatedTokens = 0

\* stat failed transiently three times, exists() answered true, and readFile
\* then failed for good: the file is reported as not existing.
C39_Witness ==
    /\ ReaderDone
    /\ OptimisticExists
    /\ reader.readReplies = <<StrErr("EACCES")>>
    /\ reader.result = [threw |-> FALSE, exists |-> FALSE, charCount |-> 0,
                        estimatedTokens |-> 0]

(***************************************************************************)
(* Further properties of context switching (checked under Spec)            *)
(***************************************************************************)

\* C33: whenever no switch is in flight (isContextSwitching false), the
\* renderer's activeContextId is the context the main process is serving,
\* after any sequence of successful and failed switchContext calls, including
\* a switch that fails after the main-process switch step has succeeded.
C33_RendererMatchesMain ==
    ~isContextSwitching => activeContextId = mainActive

(***************************************************************************)
(* Concurrency of the snapshot store (SpecStorage, SpecRoundTrip)          *)
(***************************************************************************)

\* No request is pending and no sweep is under way.
StoreQuiescent == idbQueue = <<>> /\ sweep.pc \in {"idle", "done"}

\* The i-th saveSnapshot call wrote its record and no later call wrote the
\* same key.
LastWrite(i) ==
    /\ settled[i]
    /\ \A j \in DOMAIN settled :
          (j > i /\ saves[j].ctx = saves[i].ctx) => ~settled[j]

\* C34: no interleaving of saveSnapshot with cleanupExpired or with the
\* deferred delete of loadSnapshot removes a fresh record: once they have all
\* finished, a record written by saveSnapshot whose age is within the TTL is
\* still in the store, even if its key held an expired record before.
C34_FreshRecordSurvives ==
    StoreQuiescent =>
        \A i \in DOMAIN settled :
            (LastWrite(i) /\ now - saves[i].at <= SNAPSHOT_TTL_MS) =>
                idb[StorageKey(saves[i].ctx)] =
                    Stored(saves[i].snapshot, saves[i].at, SNAPSHOT_VERSION)

\* loadSnapshot has just returned for a context whose last saveSnapshot wrote
\* its record, and that record was the one read.
LoadedWhatWasSaved(i) ==
    /\ i \in DOMAIN settled
    /\ LastWrite(i)
    /\ saves[i].ctx = lastLoad.ctx
    /\ lastLoad.stored = Stored(saves[i].snapshot, saves[i].at, SNAPSHOT_VERSION)

\* A step in which loadSnapshot returns.
LoadSnapshotReturns == lastLoad' # lastLoad

\* The i-th saveSnapshot call is the last one made for the context of the
\* load that returns in this step, it has returned, and its record is not
\* older than the TTL.
SavedThenLoaded(i) ==
    /\ i \in DOMAIN settled
    /\ saves[i].ctx = lastLoad'.ctx
    /\ \A j \in DOMAIN saves : saves[j].ctx = saves[i].ctx => j <= i
    /\ now - saves[i].at <= SNAPSHOT_TTL_MS

\* The load returns the snapshot of the i-th save and leaves the store alone.
RoundTripHolds(i) ==
    /\ lastLoad'.result = saves[i].snapshot
    /\ idb' = idb
    /\ idb[StorageKey(saves[i].ctx)] =
           Stored(saves[i].snapshot, saves[i].at, SNAPSHOT_VERSION)
    /\ idbQueue' = Tail(idbQueue)

\* C36 as stated: saveSnapshot(c, s) followed by loadSnapshot(c) at any time
\* with now - timestamp <= 5 minutes (age exactly the TTL included) and the
\* same schema version returns s unchanged and leaves the record in the store.
C36_RoundTripAlways ==
    [][LoadSnapshotReturns =>
          \A i \in DOMAIN saves : SavedThenLoaded(i) => RoundTripHolds(i)]_vars

\* C36 amended: when the write of saveSnapshot(c, s) succeeded and the
\* following loadSnapshot(c) reads the record it wrote, at any time with
\* now - timestamp <= 5 minutes (age exactly the TTL included), it returns s
\* unchanged and leaves the record in the store; when the read fails,
\* loadSnapshot returns none.
C36_RoundTrip ==
    [][LoadSnapshotReturns =>
          \A i \in DOMAIN saves :
              SavedThenLoaded(i) =>
                  IF settled[i] /\ lastLoad'.stored =
                        Stored(saves[i].snapshot, saves[i].at, SNAPSHOT_VERSION)
                  THEN RoundTripHolds(i)
                  ELSE lastLoad'.stored.failed => IsNull(lastLoad'.result)]_vars

\* A saved snapshot is loaded exactly one TTL after it was written: it
\* comes back as saved and the record is still there.
C36_Witness ==
    /\ \E i \in DOMAIN settled : LoadedWhatWasSaved(i)
    /\ lastLoad.at - lastLoad.stored.timestamp = SNAPSHOT_TTL_MS
    /\ lastLoad.result = SnapStale
    /\ idbQueue = <<>>
    /\ idb[StorageKey(lastLoad.ctx)] = lastLoad.stored

(***************************************************************************)
(* What is saved under a context's key (specification SpecOverlap)      *)
(***************************************************************************)

\* The snapshot of a set request was captured from workspace state of the
\* context it names: the lists are those the main process serves for it.
BelongsTo(snapshot, c) ==
    /\ snapshot.metadata.contextId = c
    /\ snapshot.projects = FreshProjects(c)
    /\ snapshot.repositoryGroups = FreshRepoGroups(c)

\* C35: the snapshot stored under the key of context c always holds workspace
\* state that belonged to c, with _metadata.contextId = c: under any sequence
\* or overlap of switchContext calls, state restored or fetched for another
\* context is never saved under c's key.
C35_SavedUnderOwnKey ==
    \A i \in DOMAIN idbQueue :
        idbQueue[i].op = "set" =>
            \E c \in AllContexts :
                /\ idbQueue[i].key = StorageKey(c)
                /\ BelongsTo(idbQueue[i].rec.snapshot, c)

(***************************************************************************)
(* validateSnapshot on a snapshot whose references are all fresh           *)
(***************************************************************************)

FreshIds == FreshProjectIds \cup FreshWorktreeIds

\* The project id a tab refers to is served by the target context.
TabReferenceFresh(tab) ==
    tab.type = "session" /\ tab.projectId # None => tab.projectId \in FreshIds

\* Every project and worktree id the snapshot refers to is in the fresh data.
AllReferencesFresh ==
    LET s == vIn.snapshot IN
    /\ s.selectedProjectId \in {None} \cup FreshProjectIds
    /\ s.selectedWorktreeId \in {None} \cup FreshWorktreeIds
    /\ s.activeProjectId \in {None} \cup FreshIds
    /\ \A i \in DOMAIN s.openTabs : TabReferenceFresh(s.openTabs[i])
    /\ \A i \in DOMAIN s.paneLayout.panes :
          \A j \in DOMAIN s.paneLayout.panes[i].tabs :
              TabReferenceFresh(s.paneLayout.panes[i].tabs[j])

\* Open tabs, active and selected tabs, selections and pane layout come back
\* as they were stored.
ReturnedUnchanged ==
    LET s == vIn.snapshot
        r == vOut.state
    IN  /\ r.openTabs = s.openTabs
        /\ r.activeTabId = s.activeTabId
        /\ r.selectedTabIds = s.selectedTabIds
        /\ r.selectedProjectId = s.selectedProjectId
        /\ r.selectedRepositoryId = s.selectedRepositoryId
        /\ r.selectedWorktreeId = s.selectedWorktreeId
        /\ r.activeProjectId = s.activeProjectId
        /\ r.paneLayout = s.paneLayout

\* The snapshot's own references resolve: active and selected tabs are open
\* tabs, a pane has tabs and its active tab among them (or is the lone
\* default pane), the focused pane exists, and activeProjectId is set
\* whenever selectedProjectId is.
PaneConsistent(pane) ==
    /\ Len(pane.tabs) > 0
    /\ HasId(pane.tabs, pane.activeTabId)
    /\ \A k \in DOMAIN pane.selectedTabIds : HasId(pane.tabs, pane.selectedTabIds[k])

SnapshotConsistent ==
    LET s == vIn.snapshot
        panes == s.paneLayout.panes
    IN  /\ s.activeTabId = None \/ HasId(s.openTabs, s.activeTabId)
        /\ \A k \in DOMAIN s.selectedTabIds : HasId(s.openTabs, s.selectedTabIds[k])
        /\ \/ panes = <<DefaultPane>>
           \/ Len(panes) > 0 /\ \A i \in DOMAIN panes : PaneConsistent(panes[i])
        /\ HasId(panes, s.paneLayout.focusedPaneId)
        /\ s.activeProjectId = None => s.selectedProjectId = None

\* C37 (as stated): when every project and worktree id referenced by the
\* stored snapshot is present in the fresh data of the target context,
\* validateSnapshot returns the snapshot's open tabs, active and selected
\* tabs, selections and pane layout unchanged.
C37_LosslessWhenReferencesFresh ==
    Validated /\ AllReferencesFresh => ReturnedUnchanged

\* C37 (amended): when every referenced project and worktree id is fresh and
\* the snapshot's own tab, pane and project references resolve, what
\* validateSnapshot returns is unchanged; and whatever the snapshot, the open
\* tabs come back unchanged when every referenced id is fresh.
C37_LosslessWhenConsistent ==
    Validated /\ AllReferencesFresh =>
        /\ vOut.state.openTabs = vIn.snapshot.openTabs
        /\ SnapshotConsistent => ReturnedUnchanged

\* A split window with a session tab of a fresh project comes back unchanged.
C37_Witness ==
    /\ Validated /\ AllReferencesFresh /\ SnapshotConsistent
    /\ Len(vIn.snapshot.paneLayout.panes) = 2
    /\ \E i \in DOMAIN vIn.snapshot.paneLayout.panes :
          \E j \in DOMAIN vIn.snapshot.paneLayout.panes[i].tabs :
              vIn.snapshot.paneLayout.panes[i].tabs[j].projectId = "p1"
    /\ ReturnedUnchanged

(***************************************************************************)
(* Shape of the pane layout validateSnapshot returns                       *)
(***************************************************************************)

\* A pane's active tab and selected tabs are tabs of that pane.
PaneWellFormed(pane) ==
    /\ pane.activeTabId = None \/ HasId(pane.tabs, pane.activeTabId)
    /\ \A k \in DOMAIN pane.selectedTabIds : HasId(pane.tabs, pane.selectedTabIds[k])

\* The layout has a pane without tabs only as the one synthesized default.
NoEmptyPaneButDefault(panes) ==
    \A i \in DOMAIN panes :
        Len(panes[i].tabs) = 0 => Len(panes) = 1 /\ panes[1] = DefaultPane

\* C38: the pane layout returned by validateSnapshot is well-formed: every
\* pane's activeTabId is none or the id of a tab in that pane, every pane's
\* selectedTabIds are ids of tabs in that pane, no pane with zero tabs
\* remains unless it is the single synthesized default pane, and
\* focusedPaneId is the id of a pane in the layout.
C38_LayoutWellFormed ==
    Validated =>
        LET layout == vOut.state.paneLayout IN
        /\ \A i \in DOMAIN layout.panes : PaneWellFormed(layout.panes[i])
        /\ NoEmptyPaneButDefault(layout.panes)
        /\ HasId(layout.panes, layout.focusedPaneId)

\* A split window stored with dangling references: one pane loses its active
\* tab and part of its selection, the other pane loses every tab and is
\* removed, and the focused pane was the removed one.
C38_Witness ==
    /\ Validated
    /\ Len(vIn.snapshot.paneLayout.panes) = 2
    /\ Len(vOut.state.paneLayout.panes) = 1
    /\ Len(vOut.state.paneLayout.panes[1].tabs) > 0
    /\ Len(vOut.state.paneLayout.panes[1].tabs) < Len(vIn.snapshot.paneLayout.panes[1].tabs)
    /\ vOut.state.paneLayout.panes[1].activeTabId # vIn.snapshot.paneLayout.panes[1].activeTabId
    /\ vOut.state.paneLayout.panes[1].selectedTabIds # vIn.snapshot.paneLayout.panes[1].selectedTabIds
    /\ vOut.state.paneLayout.focusedPaneId # vIn.snapshot.paneLayout.focusedPaneId

====
